---- MODULE Spec2Model ----
(***************************************************************************)
(* The OCI distribution client of crates/publish/src/oci/mod.rs            *)
(* (Client::old_pull, Client::push, Client::auth) and its on-disk cache    *)
(* (Cache), as a state machine over a registry and a file system.          *)
(***************************************************************************)
EXTENDS Integers, Sequences, FiniteSets, TLC

\* ------------------------------------------------------------------ bounds
\* Longest layer list of a manifest the registry serves.
MaxLayers == 2

\* ---------------------------------------------------------------- universe
Procs == {1, 2}

\* Reference strings as the caller types them, split into name components
\* and separators: three that parse (one without a tag) and four that do not
\* (no repository, an invalid character, an empty tag, no separator).
RefStrings ==
  {<<"reg", "/", "app", ":", "latest">>,
   <<"reg", "/", "app", ":", "v1">>,
   <<"reg", "/", "app">>,
   <<"reg", "/">>,
   <<"reg", "/", "app!">>,
   <<"reg", "/", "app", ":">>,
   <<"reg", "app", "v1">>}
Names == {"reg", "app", "latest", "v1"}
NoTag == "None"
ParseError == [registry |-> "ParseError", repository |-> "ParseError", tag |-> NoTag]

\* reference.parse(): registry "/" repository [":" tag], each a name.
ParseLenient(s) ==
  IF /\ Len(s) \in {3, 5}
     /\ s[2] = "/"
     /\ Len(s) = 5 => s[4] = ":"
  THEN [registry |-> s[1], repository |-> s[3],
        tag |-> IF Len(s) = 5 THEN s[5] ELSE NoTag]
  ELSE ParseError
Parse(s) ==
  IF /\ Len(s) \in {3, 5}
     /\ s[1] \in Names
     /\ s[2] = "/"
     /\ s[3] \in Names
     /\ Len(s) = 5 => (s[4] = ":" /\ s[5] \in Names)
  THEN [registry |-> s[1], repository |-> s[3],
        tag |-> IF Len(s) = 5 THEN s[5] ELSE NoTag]
  ELSE ParseError

\* reference.to_string(): registry "/" repository, and ":" tag when the
\* reference has one.
ReferenceToStringNoTag(r) == <<r.registry, "/", r.repository>>
ReferenceToString(r) ==
  <<r.registry, "/", r.repository>> \o (IF r.tag = NoTag THEN <<>> ELSE <<":", r.tag>>)

\* The references there are, the ones with a tag, and the strings of those.
AllRefs == {Parse(s) : s \in RefStrings} \ {ParseError}
Refs == {r \in AllRefs : r.tag # NoTag}
TaggedRefStrings == {s \in RefStrings : Parse(s) \in Refs}
\* The tag publishers move; the other tag names one manifest for good.
MovingRefString == <<"reg", "/", "app", ":", "latest">>
MovingRef == [registry |-> "reg", repository |-> "app", tag |-> "latest"]
Digests == {"sha256:aaa", "sha256:bbb"}

WASM_LAYER_MEDIA_TYPE == "application/vnd.wasm.content.layer.v1+wasm"
DATA_MEDIATYPE == "application/vnd.wasm.content.layer.v1+data"
\* A media type that is neither: a layer of a container image.
IMAGE_LAYER_MEDIA_TYPE == "application/vnd.oci.image.layer.v1.tar"
MediaTypes == {WASM_LAYER_MEDIA_TYPE, DATA_MEDIATYPE, IMAGE_LAYER_MEDIA_TYPE}

\* The layer descriptors manifests are made of: a module, the module's
\* digest listed once more with the data media type, and a layer of a third
\* media type.
LayerEntries ==
  {[digest |-> "sha256:aaa", media_type |-> WASM_LAYER_MEDIA_TYPE],
   [digest |-> "sha256:aaa", media_type |-> DATA_MEDIATYPE],
   [digest |-> "sha256:bbb", media_type |-> IMAGE_LAYER_MEDIA_TYPE]}
Layers == UNION {[1..n -> LayerEntries] : n \in 0..MaxLayers}
\* The config object is the locked application, which names the layers:
\* manifests with different layers have different config digests.
ConfigDigest(ls) == <<"sha256:cfg", ls>>
Manifests == {[config |-> ConfigDigest(ls), layers |-> ls] : ls \in Layers}
NoManifest == [config |-> <<"none", <<>> >>, layers |-> <<>>]
StableManifest ==
  [config |-> ConfigDigest(<<[digest |-> "sha256:aaa", media_type |-> WASM_LAYER_MEDIA_TYPE]>>),
   layers |-> <<[digest |-> "sha256:aaa", media_type |-> WASM_LAYER_MEDIA_TYPE]>>]

\* An application as Client::push receives it: the module first, then one
\* data layer per file.
Apps ==
  {m \in Manifests :
     /\ Len(m.layers) >= 1
     /\ m.layers[1].media_type = WASM_LAYER_MEDIA_TYPE
     /\ \A j \in 2..Len(m.layers) : m.layers[j].media_type = DATA_MEDIATYPE}
NoApp == NoManifest

\* ------------------------------------------------------------- credentials
\* The Err of a CredentialRetrievalError other than the three Client::auth
\* names, Ok(UsernamePassword(username, password)) and Ok(IdentityToken(_)).
Credential(k, u, pw) == [kind |-> k, username |-> u, password |-> pw]
CredentialErrors ==
  {"ConfigNotFound", "NoCredentialConfigured", "ConfigReadError", "HelperFailure",
   "CredentialDecodingError"}
Usernames == {"alice", "bob"}
Passwords == {"secret", "hunter2"}
AllCredentials ==
  {Credential(k, "", "") : k \in CredentialErrors}
  \cup {Credential("UsernamePassword", u, pw) : u \in Usernames, pw \in Passwords}
  \cup {Credential("IdentityToken", "", tok) : tok \in {"token"}}
\* What the credential store of a pulling or pushing client can answer.
CredentialResults ==
  {c \in AllCredentials :
     c.kind = "UsernamePassword" => (c.username = "alice" /\ c.password = "secret")}

NoAuth == [kind |-> "None", username |-> "", password |-> ""]
Anonymous == [kind |-> "Anonymous", username |-> "", password |-> ""]
Basic(u, pw) == [kind |-> "Basic", username |-> u, password |-> pw]
AuthError == [kind |-> "Error", username |-> "", password |-> ""]

\* Client::auth, on the answer of docker_credential::get_credential(server).
RegistryAuthSwapped(c) ==
  CASE c.kind \in {"ConfigNotFound", "NoCredentialConfigured", "ConfigReadError"} -> Anonymous
    [] c.kind = "UsernamePassword" -> Basic(c.password, c.username)
    [] c.kind = "IdentityToken" -> Anonymous
    [] OTHER -> AuthError
RegistryAuth(c) ==
  CASE c.kind \in {"ConfigNotFound", "NoCredentialConfigured", "ConfigReadError"} -> Anonymous
    [] c.kind = "UsernamePassword" -> Basic(c.username, c.password)
    [] c.kind = "IdentityToken" -> Anonymous
    [] OTHER -> AuthError

\* ------------------------------------------------------------------- files
NoFile == [exists |-> FALSE, bytes |-> <<>>]
Truncated == [exists |-> TRUE, bytes |-> <<>>]
FileOf(b) == [exists |-> TRUE, bytes |-> b]

\* What the registry holds at a digest.
BlobBytes(d) == <<"blob", d>>
ConfigBytes(c) == <<"config", c>>

\* serde_json::to_string(&manifest): the config descriptor and the layer
\* vector in the order of the parsed manifest.
ManifestJsonDedup(m) ==
  <<"manifest", m.config,
    [j \in {k \in 1..Len(m.layers) :
               \A i \in 1..(k - 1) : m.layers[i].digest # m.layers[k].digest}
       |-> m.layers[j]]>>
ManifestJson(m) == <<"manifest", m.config, m.layers>>

\* ------------------------------------------------------------------- cache
\* Paths are relative to the cache root, one element per component.
MANIFESTS_DIR == "manifests"
WASM_DIR == "wasm"
DATA_DIR == "data"

\* Cache::manifest_for_reference and Cache::config_for_reference: the
\* directory they make sure of, and the path they return.
ManifestDirNoDefault(r) == <<MANIFESTS_DIR, r.registry, r.repository, r.tag>>
ManifestDir(r) ==
  <<MANIFESTS_DIR, r.registry, r.repository,
    IF r.tag = NoTag THEN "latest" ELSE r.tag>>
ManifestForReference(r) == Append(ManifestDir(r), "manifest.json")
ConfigDirNoTag(r) == <<MANIFESTS_DIR, r.registry, r.repository>>
ConfigDir(r) ==
  <<MANIFESTS_DIR, r.registry, r.repository,
    IF r.tag = NoTag THEN "latest" ELSE r.tag>>
ConfigForReference(r) == Append(ConfigDir(r), "config.json")

\* self.wasm_dir().join(digest) and self.data_dir().join(digest).
WasmPathInData(d) == <<DATA_DIR, d>>
WasmPath(d) == <<WASM_DIR, d>>
DataPath(d) == <<DATA_DIR, d>>

\* The directories Cache::ensure_dirs makes sure of.
LayoutDirs == {<<MANIFESTS_DIR>>, <<WASM_DIR>>, <<DATA_DIR>>}

\* The directories and files there can be under the root: the ones of the
\* layout, and below manifests/ also a reference directory with no tag
\* component and one named after an absent tag.
RefDirs ==
  {<<MANIFESTS_DIR, r.registry, r.repository, tg>> :
     r \in AllRefs, tg \in {"latest", "v1", NoTag}}
  \cup {<<MANIFESTS_DIR, r.registry, r.repository>> : r \in AllRefs}
DirPaths ==
  LayoutDirs \cup RefDirs
  \cup {<<MANIFESTS_DIR, r.registry>> : r \in AllRefs}
FilePaths ==
  {<<WASM_DIR, d>> : d \in Digests} \cup {<<DATA_DIR, d>> : d \in Digests}
  \cup {Append(dir, f) : dir \in RefDirs, f \in {"manifest.json", "config.json"}}

\* A call of one of Cache's functions or of Client::auth from outside
\* old_pull: the function, its arguments, how far it is, what it returned.
CallOf(f, st, r, b, d, c, path, a) ==
  [fn |-> f, stage |-> st, ref |-> r, bytes |-> b, digest |-> d, cred |-> c,
   ret |-> path, auth |-> a, prev |-> <<>>]
NoCall ==
  CallOf("none", "done", ParseError, <<>>, "", Credential("none", "", ""), <<>>, NoAuth)
NoSnapshot == [f \in {} |-> NoFile]
\* The bytes a caller can hand to write_wasm / write_data.
Blobs == {BlobBytes(d) : d \in Digests}

\* Client::data(file): the bytes of the file, or the error of File::open.
ReadFile(fs, f) == IF fs[f].exists THEN fs[f].bytes ELSE <<"NotFound">>

\* fs::create_dir_all(p): p and every directory above it.
CreateDirAll(ds, p) == ds \cup {SubSeq(p, 1, n) : n \in 1..Len(p)}

VARIABLES
  uploads,       \* registry: what the client has uploaded, in order
  client,        \* the Client as Client::new made it: its flag, its oci configuration
  platform,      \* deploy: the apps, channels, revisions and bindles of the cloud platform
  files,         \* cache: the file at each path under the root
  dirs,          \* cache: the directories under the root
  pc,            \* per client: position in old_pull / push
  input,         \* per client: the reference string the operation was called with
  ref,           \* per client: the parsed reference
  auth,          \* per client: RegistryAuth of the running operation
  manifest,      \* per client: the manifest pull_image_manifest returned
  idx,           \* per client: index of the layer the loop is at
  app,           \* per client: the application handed to push
  result,        \* per client: how the last operation ended
  startCache,    \* history: digests with a blob file when the pull started
  fetchedIdx,    \* history: layer indexes this pull called pull_blob for
  retry,         \* history: this pull re-pulls the manifest whose pull failed in a layer
  prevWritten,   \* history: digests the failed pull had written
  replaced,      \* history: this pull overwrote a different manifest.json
  writes,        \* history: fs::write calls of old_pull per blob digest (saturates at 2)
  lastPush,      \* history: the last push that returned Ok, until the tag moves
  trace,         \* history: per client, the steps of the running operation and how each ended
  call,          \* a direct call of Cache or of Client::auth: function, arguments, result
  prevFiles      \* history: the files when the first of two identical writes had returned

\* The cache as the claims look at it: the blob files by digest, and the
\* two files of a reference.
wasm == [d \in Digests |-> files[<<"wasm", d>>]]
data == [d \in Digests |-> files[<<"data", d>>]]
TagOrLatest(r) == IF r.tag = NoTag THEN "latest" ELSE r.tag
manifestJson ==
  [r \in AllRefs |->
     files[<<"manifests", r.registry, r.repository, TagOrLatest(r), "manifest.json">>]]
configJson ==
  [r \in AllRefs |->
     files[<<"manifests", r.registry, r.repository, TagOrLatest(r), "config.json">>]]

regVars == <<uploads, client, platform>>
cacheVars == <<files, dirs>>
unitVars == <<call, prevFiles>>
histVars == <<startCache, fetchedIdx, retry, prevWritten, replaced, writes, lastPush>>
vars == <<uploads, client, platform, files, dirs,
          pc, input, ref, auth, manifest, idx, app, result,
          startCache, fetchedIdx, retry, prevWritten, replaced, writes, lastPush,
          trace, call, prevFiles>>

\* A platform nothing was deployed to.
NoPlatform == [apps |-> {}, channels |-> {}, revisions |-> {}, bindles |-> {}]

\* Client::build_config(insecure): the protocol of the oci_distribution
\* client, which sends every request of the client over it.
build_config_https(insecure) == [protocol |-> "Https"]
build_config(insecure) == [protocol |-> IF insecure THEN "Http" ELSE "Https"]

\* Nothing runs; fs are the files and ds the directories under the root.
InitClient(insecure, fs, ds) ==
  /\ uploads = <<>>
  /\ client = [insecure |-> insecure, oci |-> build_config(insecure)]
  /\ platform = NoPlatform
  /\ files = fs
  /\ dirs = ds
  /\ pc = [p \in Procs |-> "idle"]
  /\ input = [p \in Procs |-> <<>>]
  /\ ref = [p \in Procs |-> ParseError]
  /\ auth = [p \in Procs |-> NoAuth]
  /\ manifest = [p \in Procs |-> NoManifest]
  /\ idx = [p \in Procs |-> 0]
  /\ app = [p \in Procs |-> NoApp]
  /\ result = [p \in Procs |-> "None"]
  /\ startCache = [p \in Procs |-> {}]
  /\ fetchedIdx = [p \in Procs |-> {}]
  /\ retry = [p \in Procs |-> FALSE]
  /\ prevWritten = [p \in Procs |-> {}]
  /\ replaced = [p \in Procs |-> FALSE]
  /\ writes = [d \in Digests |-> 0]
  /\ lastPush = [ref |-> ParseError, app |-> NoApp]
  /\ trace = [p \in Procs |-> <<>>]
  /\ call = NoCall
  /\ prevFiles = NoSnapshot

\* A client made without the insecure flag.
InitOn(fs, ds) == InitClient(FALSE, fs, ds)
\* Nothing is cached.
InitWith(ds) == InitOn([f \in FilePaths |-> NoFile], ds)
\* Client::new: Cache::new has made the layout.
Init == InitWith(LayoutDirs)
\* Before the first Cache::new on this root.
InitFresh == InitWith({})
\* The root path itself, and a root path that is taken by a regular file.
ROOT == <<>>
InitRootIsFile ==
  InitOn([f \in FilePaths \cup {ROOT} |->
            IF f = ROOT THEN FileOf(<<"not a directory">>) ELSE NoFile], {})
RootIsFile == ROOT \in DOMAIN files /\ files[ROOT].exists

\* ---------------------------------------------------------------- helpers
TypeOK ==
  /\ manifest \in [Procs -> Manifests \cup {NoManifest}]
  /\ pc \in [Procs -> {"idle", "auth", "manifest", "manifest_open",
                       "manifest_write", "config", "config_open",
                       "config_write", "layer", "layer_fetch", "layer_open",
                       "layer_write", "push_auth"}]
  /\ idx \in [Procs -> 0..(MaxLayers + 1)]
  /\ result \in [Procs -> {"None", "Pulled", "Pushed", "Failed", "Abandoned"}]

\* old_pull's existence check: metadata() on wasm/<digest> or data/<digest>.
HasBlobWasmOnly(d) == wasm[d].exists
HasBlobNever(d) == FALSE
HasBlob(d) == wasm[d].exists \/ data[d].exists

\* The layer the loop of old_pull is at.
Layer(p) == manifest[p].layers[idx[p]]

\* The digests whose blob this pull fetched and wrote completely: the layers
\* before the current one that were not skipped.
WrittenBy(p) ==
  {manifest[p].layers[j].digest : j \in {k \in fetchedIdx[p] : k < idx[p]}}

Inc(n) == IF n < 2 THEN n + 1 ELSE 2

\* A step of the running operation has ended, with Ok or with an error.
Log(p, o, j, res) ==
  trace' = [trace EXCEPT ![p] = Append(@, [op |-> o, item |-> j, ok |-> res])]

\* An operation returns: Ok (Pulled, Pushed) or the error of a `?`.
Return(p, res) ==
  /\ pc' = [pc EXCEPT ![p] = "idle"]
  /\ result' = [result EXCEPT ![p] = res]
  /\ auth' = [auth EXCEPT ![p] = NoAuth]

Goto(p, to) ==
  /\ pc' = [pc EXCEPT ![p] = to]
  /\ UNCHANGED <<result, auth>>

\* ---------------------------------------------------------------- registry
\* What the client has put under a reference: the manifests among its uploads.
Uploaded(r) ==
  SelectSeq(uploads, LAMBDA u : u.kind = "manifest" /\ u.ref = r)

\* The manifests a reference can name when it is resolved: the last one this
\* client uploaded for it; else whatever a publisher put under the moving
\* tag, and one manifest for good under the release tag.
Served(r) ==
  IF Uploaded(r) # <<>> THEN {Uploaded(r)[Len(Uploaded(r))].manifest}
  ELSE IF r.tag \in {MovingRef.tag, NoTag} THEN Manifests
  ELSE {StableManifest}

\* ---------------------------------------------------------------- old_pull
\* old_pull(reference): the reference string parses ...
OldPullBegin(p, s) ==
  /\ pc[p] = "idle"
  /\ Parse(s) # ParseError
  /\ pc' = [pc EXCEPT ![p] = "auth"]
  /\ input' = [input EXCEPT ![p] = s]
  /\ ref' = [ref EXCEPT ![p] = Parse(s)]
  /\ result' = [result EXCEPT ![p] = "None"]
  /\ idx' = [idx EXCEPT ![p] = 0]
  /\ startCache' = [startCache EXCEPT ![p] =
                      {d \in Digests : wasm[d].exists \/ data[d].exists}]
  /\ fetchedIdx' = [fetchedIdx EXCEPT ![p] = {}]
  /\ retry' = [retry EXCEPT ![p] = (result[p] = "Failed" /\ idx[p] > 0)]
  /\ prevWritten' = [prevWritten EXCEPT ![p] =
                       IF result[p] = "Failed" /\ idx[p] > 0 THEN WrittenBy(p) ELSE {}]
  /\ replaced' = [replaced EXCEPT ![p] = FALSE]
  /\ manifest' = [manifest EXCEPT ![p] =
                    IF result[p] = "Failed" /\ idx[p] > 0 THEN @ ELSE NoManifest]
  /\ trace' = [trace EXCEPT ![p] = <<[op |-> "parse", item |-> 0, ok |-> TRUE]>>]
  /\ UNCHANGED <<regVars, cacheVars, auth, app, writes, lastPush>>
\* ... called by the user of the client ...
OldPullStart(p, s) == OldPullBegin(p, s) /\ UNCHANGED unitVars

\* ... or it does not, and old_pull returns the error.
OldPullParseErr(p, s) ==
  /\ pc[p] = "idle"
  /\ Parse(s) = ParseError
  /\ input' = [input EXCEPT ![p] = s]
  /\ ref' = [ref EXCEPT ![p] = ParseError]
  /\ result' = [result EXCEPT ![p] = "Failed"]
  /\ idx' = [idx EXCEPT ![p] = 0]
  /\ manifest' = [manifest EXCEPT ![p] = NoManifest]
  /\ startCache' = [startCache EXCEPT ![p] = {}]
  /\ fetchedIdx' = [fetchedIdx EXCEPT ![p] = {}]
  /\ retry' = [retry EXCEPT ![p] = FALSE]
  /\ prevWritten' = [prevWritten EXCEPT ![p] = {}]
  /\ replaced' = [replaced EXCEPT ![p] = FALSE]
  /\ trace' = [trace EXCEPT ![p] = <<[op |-> "parse", item |-> 0, ok |-> FALSE]>>]
  /\ UNCHANGED <<regVars, unitVars, cacheVars, pc, auth, app, writes, lastPush>>

OldPullAuth(p) ==
  /\ pc[p] = "auth"
  /\ \E c \in CredentialResults :
       /\ RegistryAuth(c) # AuthError
       /\ auth' = [auth EXCEPT ![p] = RegistryAuth(c)]
  /\ pc' = [pc EXCEPT ![p] = "manifest"]
  /\ Log(p, "auth", 0, TRUE)
  /\ UNCHANGED <<regVars, unitVars, cacheVars, input, ref, manifest, idx, app, result, histVars>>

\* The lookup fails with another error: Client::auth bails, old_pull returns.
OldPullAuthErrAnonymous(p) ==
  /\ pc[p] = "auth"
  /\ \E c \in CredentialResults : RegistryAuth(c) = AuthError
  /\ auth' = [auth EXCEPT ![p] = Anonymous]
  /\ pc' = [pc EXCEPT ![p] = "manifest"]
  /\ Log(p, "auth", 0, FALSE)
  /\ UNCHANGED <<regVars, unitVars, cacheVars, input, ref, manifest, idx, app, result,
                 histVars>>
OldPullAuthErr(p) ==
  /\ pc[p] = "auth"
  /\ \E c \in CredentialResults : RegistryAuth(c) = AuthError
  /\ Return(p, "Failed")
  /\ Log(p, "auth", 0, FALSE)
  /\ UNCHANGED <<regVars, unitVars, cacheVars, input, ref, manifest, idx, app, histVars>>

\* self.oci.pull_image_manifest(&reference, &auth): the manifest the tag
\* names now.
PullImageManifest(p) ==
  /\ pc[p] = "manifest"
  /\ \E m \in Served(ref[p]) :
       /\ manifest' = [manifest EXCEPT ![p] = m]
       /\ retry' = [retry EXCEPT ![p] = retry[p] /\ m = manifest[p]]
       /\ prevWritten' = [prevWritten EXCEPT ![p] =
                            IF retry[p] /\ m = manifest[p] THEN prevWritten[p] ELSE {}]
  /\ Goto(p, "manifest_open")
  /\ Log(p, "manifest", 0, TRUE)
  /\ UNCHANGED <<regVars, unitVars, cacheVars, input, ref, idx, app,
                 startCache, fetchedIdx, replaced, writes, lastPush>>

\* The request fails: the network, a 4xx/5xx answer, an unknown manifest.
PullImageManifestErr(p) ==
  /\ pc[p] = "manifest"
  /\ Return(p, "Failed")
  /\ Log(p, "manifest", 0, FALSE)
  /\ UNCHANGED <<regVars, unitVars, cacheVars, input, ref, manifest, idx, app, histVars>>

\* Cache::manifest_for_reference creates the reference's directory if absent;
\* fs::write(&m, &manifest_json) creates or truncates the file ...
WriteManifestOpenKeep(p) ==
  /\ pc[p] = "manifest_open"
  /\ files' = [files EXCEPT ![ManifestForReference(ref[p])] =
                 IF @.exists THEN @ ELSE Truncated]
  /\ replaced' = [replaced EXCEPT ![p] =
                    /\ files[ManifestForReference(ref[p])].exists
                    /\ files[ManifestForReference(ref[p])].bytes # ManifestJson(manifest[p])]
  /\ dirs' = CreateDirAll(dirs, ManifestDir(ref[p]))
  /\ Goto(p, IF files[ManifestForReference(ref[p])].exists THEN "config" ELSE "manifest_write")
  /\ UNCHANGED <<regVars, unitVars, trace, input, ref, manifest, idx, app,
                 startCache, fetchedIdx, retry, prevWritten, writes, lastPush>>
WriteManifestOpen(p) ==
  /\ pc[p] = "manifest_open"
  /\ files' = [files EXCEPT ![ManifestForReference(ref[p])] = Truncated]
  /\ replaced' = [replaced EXCEPT ![p] =
                    /\ files[ManifestForReference(ref[p])].exists
                    /\ files[ManifestForReference(ref[p])].bytes # ManifestJson(manifest[p])]
  /\ dirs' = CreateDirAll(dirs, ManifestDir(ref[p]))
  /\ Goto(p, "manifest_write")
  /\ UNCHANGED <<regVars, unitVars, trace, input, ref, manifest, idx, app,
                 startCache, fetchedIdx, retry, prevWritten, writes, lastPush>>

\* create_dir_all fails (nothing created), or the file cannot be opened.
WriteManifestOpenErr(p) ==
  /\ pc[p] = "manifest_open"
  /\ dirs' \in {dirs, CreateDirAll(dirs, ManifestDir(ref[p]))}
  /\ Return(p, "Failed")
  /\ Log(p, "write_manifest", 0, FALSE)
  /\ UNCHANGED <<regVars, unitVars, files, input, ref, manifest, idx, app, histVars>>

\* ... and write all of it.
WriteManifestData(p) ==
  /\ pc[p] = "manifest_write"
  /\ files' = [files EXCEPT ![ManifestForReference(ref[p])] =
                 FileOf(ManifestJson(manifest[p]))]
  /\ Goto(p, "config")
  /\ Log(p, "write_manifest", 0, TRUE)
  /\ UNCHANGED <<regVars, unitVars, dirs, input, ref, manifest, idx, app, histVars>>

WriteManifestDataErr(p) ==
  /\ pc[p] = "manifest_write"
  /\ Return(p, "Failed")
  /\ Log(p, "write_manifest", 0, FALSE)
  /\ UNCHANGED <<regVars, unitVars, cacheVars, input, ref, manifest, idx, app, histVars>>

\* self.oci.pull_blob(&reference, &manifest.config.digest, ..) and from_utf8.
PullConfig(p) ==
  /\ pc[p] = "config"
  /\ Goto(p, "config_open")
  /\ Log(p, "config", 0, TRUE)
  /\ UNCHANGED <<regVars, unitVars, cacheVars, input, ref, manifest, idx, app, histVars>>

\* The request fails, or the config blob is not UTF-8.
PullConfigErr(p) ==
  /\ pc[p] = "config"
  /\ Return(p, "Failed")
  /\ Log(p, "config", 0, FALSE)
  /\ UNCHANGED <<regVars, unitVars, cacheVars, input, ref, manifest, idx, app, histVars>>

\* Cache::config_for_reference creates the reference's directory if absent;
\* fs::write(&c, &cfg) creates or truncates the file ...
WriteConfigOpen(p) ==
  /\ pc[p] = "config_open"
  /\ files' = [files EXCEPT ![ConfigForReference(ref[p])] = Truncated]
  /\ dirs' = CreateDirAll(dirs, ConfigDir(ref[p]))
  /\ Goto(p, "config_write")
  /\ UNCHANGED <<regVars, unitVars, trace, input, ref, manifest, idx, app, histVars>>

WriteConfigOpenErr(p) ==
  /\ pc[p] = "config_open"
  /\ Return(p, "Failed")
  /\ Log(p, "write_config", 0, FALSE)
  /\ UNCHANGED <<regVars, unitVars, cacheVars, input, ref, manifest, idx, app, histVars>>

WriteConfigData(p) ==
  /\ pc[p] = "config_write"
  /\ files' = [files EXCEPT ![ConfigForReference(ref[p])] =
                 FileOf(ConfigBytes(manifest[p].config))]
  /\ pc' = [pc EXCEPT ![p] = "layer"]
  /\ idx' = [idx EXCEPT ![p] = 1]
  /\ Log(p, "write_config", 0, TRUE)
  /\ UNCHANGED <<regVars, unitVars, dirs, input, ref, auth, manifest, app, result, histVars>>

WriteConfigDataErr(p) ==
  /\ pc[p] = "config_write"
  /\ Return(p, "Failed")
  /\ Log(p, "write_config", 0, FALSE)
  /\ UNCHANGED <<regVars, unitVars, cacheVars, input, ref, manifest, idx, app, histVars>>

\* The loop of old_pull: a layer whose digest has a file in wasm/ or data/
\* is skipped ...
LayerSkipFetch(p) ==
  /\ pc[p] = "layer"
  /\ idx[p] <= Len(manifest[p].layers)
  /\ HasBlob(Layer(p).digest)
  /\ Goto(p, "layer_fetch")
  /\ UNCHANGED <<regVars, unitVars, trace, cacheVars, input, ref, manifest, idx, app, histVars>>
LayerSkip(p) ==
  /\ pc[p] = "layer"
  /\ idx[p] <= Len(manifest[p].layers)
  /\ HasBlob(Layer(p).digest)
  /\ idx' = [idx EXCEPT ![p] = @ + 1]
  /\ UNCHANGED <<regVars, unitVars, trace, cacheVars, pc, input, ref, auth, manifest, app, result, histVars>>

\* ... and any other layer is pulled.
LayerMiss(p) ==
  /\ pc[p] = "layer"
  /\ idx[p] <= Len(manifest[p].layers)
  /\ ~HasBlob(Layer(p).digest)
  /\ Goto(p, "layer_fetch")
  /\ UNCHANGED <<regVars, unitVars, trace, cacheVars, input, ref, manifest, idx, app, histVars>>

\* self.oci.pull_blob(&reference, &layer.digest, &mut bytes).
PullBlob(p) ==
  /\ pc[p] = "layer_fetch"
  /\ fetchedIdx' = [fetchedIdx EXCEPT ![p] = @ \cup {idx[p]}]
  /\ Goto(p, "layer_open")
  /\ Log(p, "blob", idx[p], TRUE)
  /\ UNCHANGED <<regVars, unitVars, cacheVars, input, ref, manifest, idx, app,
                 startCache, retry, prevWritten, replaced, writes, lastPush>>

\* ... fails, and the `?` returns the error.
PullBlobErrRetry(p) ==
  /\ pc[p] = "layer_fetch"
  /\ Len(trace[p]) < 12
  /\ Log(p, "blob", idx[p], FALSE)
  /\ UNCHANGED <<regVars, unitVars, cacheVars, pc, result, auth, input, ref, manifest,
                 idx, app, histVars>>
PullBlobErr(p) ==
  /\ pc[p] = "layer_fetch"
  /\ fetchedIdx' = [fetchedIdx EXCEPT ![p] = @ \cup {idx[p]}]
  /\ Return(p, "Failed")
  /\ Log(p, "blob", idx[p], FALSE)
  /\ UNCHANGED <<regVars, unitVars, cacheVars, input, ref, manifest, idx, app,
                 startCache, retry, prevWritten, replaced, writes, lastPush>>

\* The match on layer.media_type: write_wasm for the Wasm layer media type,
\* write_data for every other.
CategoryAlwaysData(mt) == "data"
Category(mt) == IF mt = WASM_LAYER_MEDIA_TYPE THEN "wasm" ELSE "data"

\* The file Cache::write_wasm / Cache::write_data writes a layer's bytes to.
BlobPath(l) ==
  IF Category(l.media_type) = "wasm" THEN WasmPath(l.digest) ELSE DataPath(l.digest)

\* Cache::write_wasm / Cache::write_data: fs::write(dir.join(digest), bytes)
\* creates or truncates the file ...
WriteBlobOpen(p) ==
  /\ pc[p] = "layer_open"
  /\ files' = [files EXCEPT ![BlobPath(Layer(p))] = Truncated]
  /\ writes' = [writes EXCEPT ![Layer(p).digest] = Inc(@)]
  /\ Goto(p, "layer_write")
  /\ UNCHANGED <<regVars, unitVars, trace, dirs, input, ref, manifest, idx, app,
                 startCache, fetchedIdx, retry, prevWritten, replaced, lastPush>>

WriteBlobOpenErr(p) ==
  /\ pc[p] = "layer_open"
  /\ Return(p, "Failed")
  /\ Log(p, "write_blob", idx[p], FALSE)
  /\ UNCHANGED <<regVars, unitVars, cacheVars, input, ref, manifest, idx, app, histVars>>

\* ... and writes all the bytes.
WriteBlobData(p) ==
  /\ pc[p] = "layer_write"
  /\ files' = [files EXCEPT ![BlobPath(Layer(p))] = FileOf(BlobBytes(Layer(p).digest))]
  /\ pc' = [pc EXCEPT ![p] = "layer"]
  /\ idx' = [idx EXCEPT ![p] = @ + 1]
  /\ Log(p, "write_blob", idx[p], TRUE)
  /\ UNCHANGED <<regVars, unitVars, dirs, input, ref, auth, manifest, app, result, histVars>>

WriteBlobDataErrCleanup(p) ==
  /\ pc[p] = "layer_write"
  /\ Return(p, "Failed")
  /\ files' = [f \in FilePaths |->
                 IF \E d \in WrittenBy(p) : f \in {WasmPath(d), DataPath(d)}
                 THEN NoFile ELSE files[f]]
  /\ Log(p, "write_blob", idx[p], FALSE)
  /\ UNCHANGED <<regVars, unitVars, dirs, input, ref, manifest, idx, app, histVars>>
WriteBlobDataErr(p) ==
  /\ pc[p] = "layer_write"
  /\ Return(p, "Failed")
  /\ Log(p, "write_blob", idx[p], FALSE)
  /\ UNCHANGED <<regVars, unitVars, cacheVars, input, ref, manifest, idx, app, histVars>>

\* After the last layer old_pull returns Ok(()).
OldPullReturn(p) ==
  /\ pc[p] = "layer"
  /\ idx[p] > Len(manifest[p].layers)
  /\ Return(p, "Pulled")
  /\ UNCHANGED <<regVars, unitVars, trace, cacheVars, input, ref, manifest, idx, app, histVars>>

\* The process is terminated in the middle of an operation.
Abandon(p) ==
  /\ pc[p] # "idle"
  /\ Return(p, "Abandoned")
  /\ UNCHANGED <<regVars, unitVars, trace, cacheVars, input, ref, manifest, idx, app, histVars>>

\* -------------------------------------------------------------------- push
\* Client::push(app, reference): parse the reference ...
PushStart(p, a, s) ==
  /\ pc[p] = "idle"
  /\ Parse(s) # ParseError
  /\ pc' = [pc EXCEPT ![p] = "push_auth"]
  /\ input' = [input EXCEPT ![p] = s]
  /\ ref' = [ref EXCEPT ![p] = Parse(s)]
  /\ app' = [app EXCEPT ![p] = a]
  /\ result' = [result EXCEPT ![p] = "None"]
  /\ idx' = [idx EXCEPT ![p] = 0]
  /\ trace' = [trace EXCEPT ![p] = <<[op |-> "parse", item |-> 0, ok |-> TRUE]>>]
  /\ UNCHANGED <<regVars, unitVars, cacheVars, auth, manifest, histVars>>

PushParseErr(p, a, s) ==
  /\ pc[p] = "idle"
  /\ Parse(s) = ParseError
  /\ input' = [input EXCEPT ![p] = s]
  /\ ref' = [ref EXCEPT ![p] = ParseError]
  /\ app' = [app EXCEPT ![p] = a]
  /\ result' = [result EXCEPT ![p] = "Failed"]
  /\ idx' = [idx EXCEPT ![p] = 0]
  /\ trace' = [trace EXCEPT ![p] = <<[op |-> "parse", item |-> 0, ok |-> FALSE]>>]
  /\ UNCHANGED <<regVars, unitVars, cacheVars, pc, auth, manifest, histVars>>

\* ... resolve the credentials, print the application and return Ok(()).
Push(p) ==
  /\ pc[p] = "push_auth"
  /\ \E c \in CredentialResults : RegistryAuth(c) # AuthError
  /\ Return(p, "Pushed")
  /\ lastPush' = [ref |-> ref[p], app |-> app[p]]
  /\ Log(p, "auth", 0, TRUE)
  /\ UNCHANGED <<regVars, unitVars, cacheVars, input, ref, manifest, idx, app,
                 startCache, fetchedIdx, retry, prevWritten, replaced, writes>>

PushAuthErr(p) ==
  /\ pc[p] = "push_auth"
  /\ \E c \in CredentialResults : RegistryAuth(c) = AuthError
  /\ Return(p, "Failed")
  /\ Log(p, "auth", 0, FALSE)
  /\ UNCHANGED <<regVars, unitVars, cacheVars, input, ref, manifest, idx, app, histVars>>

\* ------------------------------------------------------------ direct calls
\* No operation of a client and no direct call is running, and there is a
\* Cache: Cache::new has returned Ok.
Quiet ==
  /\ call.stage \in {"done", "failed", "abandoned"}
  /\ \A p \in Procs : pc[p] = "idle"
Made == LayoutDirs \subseteq dirs
OtherVars ==
  <<regVars, pc, input, ref, auth, manifest, idx, app, result, histVars, trace>>

\* Cache::new(root) -> ensure_dirs: manifests/, wasm/ and data/ are created
\* where absent ...
CacheNewCreateDir ==
  /\ Quiet
  /\ ~RootIsFile
  /\ dirs' = dirs \cup LayoutDirs
  /\ call' = CallOf("new", IF dirs \cap LayoutDirs = {} THEN "done" ELSE "failed",
                    ParseError, <<>>, "", NoCall.cred, <<>>, NoAuth)
  /\ prevFiles' = NoSnapshot
  /\ UNCHANGED <<files, OtherVars>>
CacheNew ==
  /\ Quiet
  /\ ~RootIsFile
  /\ dirs' = dirs \cup LayoutDirs
  /\ call' = CallOf("new", "done", ParseError, <<>>, "", NoCall.cred, <<>>, NoAuth)
  /\ prevFiles' = NoSnapshot
  /\ UNCHANGED <<files, OtherVars>>

\* ... or one create_dir_all fails, with the directories before it made:
\* none when the root is not a directory.
CacheNewErr ==
  /\ Quiet
  /\ ~Made
  /\ dirs' \in IF RootIsFile THEN {dirs}
              ELSE {dirs, dirs \cup {<<MANIFESTS_DIR>>},
                    dirs \cup {<<MANIFESTS_DIR>>, <<WASM_DIR>>}}
  /\ ~(LayoutDirs \subseteq dirs')
  /\ call' = CallOf("new", "failed", ParseError, <<>>, "", NoCall.cred, <<"io error">>, NoAuth)
  /\ prevFiles' = NoSnapshot
  /\ UNCHANGED <<files, OtherVars>>

\* Cache::write_wasm(bytes, digest) / Cache::write_data(bytes, digest):
\* fs::write creates or truncates the file ...
CacheWriteOpenCreateNew(fn, b, d) ==
  /\ Quiet
  /\ Made
  /\ IF files[IF fn = "write_wasm" THEN WasmPath(d) ELSE DataPath(d)].exists
       THEN /\ call' = CallOf(fn, "failed", ParseError, b, d, NoCall.cred, <<>>, NoAuth)
            /\ UNCHANGED files
       ELSE /\ call' = CallOf(fn, "open", ParseError, b, d, NoCall.cred, <<>>, NoAuth)
            /\ files' = [files EXCEPT ![IF fn = "write_wasm" THEN WasmPath(d)
                                        ELSE DataPath(d)] = Truncated]
  /\ prevFiles' =
       IF call.stage = "done" /\ call.fn = fn /\ call.bytes = b /\ call.digest = d
       THEN files ELSE NoSnapshot
  /\ UNCHANGED <<dirs, OtherVars>>
CacheWriteOpen(fn, b, d) ==
  /\ Quiet
  /\ Made
  /\ files' = [files EXCEPT ![IF fn = "write_wasm" THEN WasmPath(d) ELSE DataPath(d)] =
                 Truncated]
  /\ call' = CallOf(fn, "open", ParseError, b, d, NoCall.cred, <<>>, NoAuth)
  /\ prevFiles' =
       IF call.stage = "done" /\ call.fn = fn /\ call.bytes = b /\ call.digest = d
       THEN files ELSE NoSnapshot
  /\ UNCHANGED <<dirs, OtherVars>>

\* ... and writes all the bytes ...
CacheWriteData ==
  /\ call.stage = "open"
  /\ call.fn \in {"write_wasm", "write_data"}
  /\ files' = [files EXCEPT ![IF call.fn = "write_wasm" THEN WasmPath(call.digest)
                              ELSE DataPath(call.digest)] = FileOf(call.bytes)]
  /\ call' = [call EXCEPT !.stage = "done"]
  /\ UNCHANGED <<dirs, prevFiles, OtherVars>>

\* ... unless the write fails: an I/O error, with the file as it is by then.
CacheWriteErr ==
  /\ call.stage = "open"
  /\ call.fn \in {"write_wasm", "write_data"}
  /\ call' = [call EXCEPT !.stage = "failed", !.ret = <<"io error">>]
  /\ UNCHANGED <<files, dirs, prevFiles, OtherVars>>

\* Cache::manifest_for_reference(reference) and
\* Cache::config_for_reference(reference): the directory is created if it is
\* absent, and the path of the file in it is returned.
PathCall(fn, r) ==
  /\ Quiet
  /\ Made
  /\ dirs' = CreateDirAll(dirs, IF fn = "manifest_for_reference" THEN ManifestDir(r)
                                ELSE ConfigDir(r))
  /\ call' = [CallOf(fn, "done", r, <<>>, "", NoCall.cred,
                     IF fn = "manifest_for_reference" THEN ManifestForReference(r)
                     ELSE ConfigForReference(r), NoAuth)
                EXCEPT !.prev = IF call.fn = fn /\ call.ref = r /\ call.stage = "done"
                                THEN call.ret ELSE <<>>]
  /\ prevFiles' = NoSnapshot
  /\ UNCHANGED <<files, OtherVars>>

\* create_dir_all fails, with none or some of the directories made.
PathCallErr(fn, r) ==
  /\ Quiet
  /\ Made
  /\ (IF fn = "manifest_for_reference" THEN ManifestDir(r) ELSE ConfigDir(r)) \notin dirs
  /\ \E n \in 1..3 :
       dirs' = CreateDirAll(dirs, SubSeq(ManifestDir(r), 1, n))
  /\ call' = CallOf(fn, "failed", r, <<>>, "", NoCall.cred, <<"io error">>, NoAuth)
  /\ prevFiles' = NoSnapshot
  /\ UNCHANGED <<files, OtherVars>>

\* Client::auth(reference), with c the answer of the credential store for
\* the reference's registry.
AuthCall(r, c) ==
  /\ Quiet
  /\ call' = CallOf("auth", IF RegistryAuth(c) = AuthError THEN "failed" ELSE "done",
                    r, <<>>, "", c, <<>>, RegistryAuth(c))
  /\ prevFiles' = NoSnapshot
  /\ UNCHANGED <<files, dirs, OtherVars>>


\* Client::descriptor(reference), called on client 1: the reference parses ...
DescCall(st, s, r, pl, res) ==
  [fn |-> "descriptor", stage |-> st, input |-> s, ref |-> r, pulled |-> pl, ret |-> res]
DescriptorStart(s) ==
  /\ Quiet
  /\ Made
  /\ Parse(s) # ParseError
  /\ call' = DescCall("paths", s, Parse(s), FALSE, <<>>)
  /\ prevFiles' = NoSnapshot
  /\ UNCHANGED <<files, dirs, OtherVars>>

\* ... or it does not.
DescriptorParseErr(s) ==
  /\ Quiet
  /\ Made
  /\ Parse(s) = ParseError
  /\ call' = DescCall("failed", s, ParseError, FALSE, <<>>)
  /\ prevFiles' = NoSnapshot
  /\ UNCHANGED <<files, dirs, OtherVars>>

\* manifest_for_reference and config_for_reference make sure of the
\* reference's directory ...
DescriptorPaths ==
  /\ call.fn = "descriptor"
  /\ call.stage = "paths"
  /\ dirs' = CreateDirAll(CreateDirAll(dirs, ManifestDir(call.ref)), ConfigDir(call.ref))
  /\ call' = [call EXCEPT !.stage = "check"]
  /\ UNCHANGED <<files, prevFiles, OtherVars>>

\* ... or create_dir_all fails.
DescriptorPathsErr ==
  /\ call.fn = "descriptor"
  /\ call.stage = "paths"
  /\ ManifestDir(call.ref) \notin dirs
  /\ call' = [call EXCEPT !.stage = "failed"]
  /\ UNCHANGED <<files, dirs, prevFiles, OtherVars>>

\* if !manifest_path.exists() || !config_path.exists(): old_pull is called
\* with the reference written out again ...
DescriptorPullAlways ==
  /\ call.fn = "descriptor"
  /\ call.stage = "check"
  /\ OldPullBegin(1, ReferenceToString(call.ref))
  /\ call' = [call EXCEPT !.stage = "pull", !.pulled = TRUE]
  /\ UNCHANGED prevFiles
DescriptorPull ==
  /\ call.fn = "descriptor"
  /\ call.stage = "check"
  /\ \/ ~files[ManifestForReference(call.ref)].exists
     \/ ~files[ConfigForReference(call.ref)].exists
  /\ OldPullBegin(1, ReferenceToString(call.ref))
  /\ call' = [call EXCEPT !.stage = "pull", !.pulled = TRUE]
  /\ UNCHANGED prevFiles

\* ... and when both files exist it is not.
DescriptorCached ==
  /\ call.fn = "descriptor"
  /\ call.stage = "check"
  /\ files[ManifestForReference(call.ref)].exists
  /\ files[ConfigForReference(call.ref)].exists
  /\ call' = [call EXCEPT !.stage = "read"]
  /\ UNCHANGED <<files, dirs, prevFiles, OtherVars>>

\* old_pull has returned Ok ...
DescriptorPulled ==
  /\ call.fn = "descriptor"
  /\ call.stage = "pull"
  /\ pc[1] = "idle"
  /\ result[1] = "Pulled"
  /\ call' = [call EXCEPT !.stage = "read"]
  /\ UNCHANGED <<files, dirs, prevFiles, OtherVars>>

\* ... or an error, which the `?` returns; or the process is gone.
DescriptorPullFailed ==
  /\ call.fn = "descriptor"
  /\ call.stage = "pull"
  /\ pc[1] = "idle"
  /\ result[1] # "Pulled"
  /\ call' = [call EXCEPT !.stage = IF result[1] = "Abandoned" THEN "abandoned"
                                    ELSE "failed"]
  /\ UNCHANGED <<files, dirs, prevFiles, OtherVars>>

\* serde_json::from_slice of a manifest.json old_pull wrote.
ManifestFromJson(b) == [config |-> b[2], layers |-> b[3]]

\* Self::data reads config.json and manifest.json and serde_json::from_slice
\* makes the descriptor of them ...
DescriptorRead ==
  /\ call.fn = "descriptor"
  /\ call.stage = "read"
  /\ files[ManifestForReference(call.ref)].bytes # <<>>
  /\ files[ConfigForReference(call.ref)].bytes # <<>>
  /\ call' = [call EXCEPT
                !.stage = "done",
                !.ret = [config |-> ReadFile(files, ConfigForReference(call.ref)),
                         manifest |-> ManifestFromJson(
                                        ReadFile(files, ManifestForReference(call.ref)))]]
  /\ UNCHANGED <<files, dirs, prevFiles, OtherVars>>

\* ... unless a read fails or a file is not the JSON of its type: an empty
\* file, a config blob that is no locked application.
DescriptorReadErr ==
  /\ call.fn = "descriptor"
  /\ call.stage = "read"
  /\ call' = [call EXCEPT !.stage = "failed"]
  /\ UNCHANGED <<files, dirs, prevFiles, OtherVars>>

\* ------------------------------------------------- deploy: clients/cloud.rs
\* The names and versions deployed, and the sizes the platform is cut at.
CloudNames == {"app", "web"}
CloudVersions == {"1.0.0", "2.0.0"}
MaxApps == 2
MaxChannels == 2
NoId == 0
CloudFrame ==
  <<uploads, client, files, dirs, prevFiles,
    pc, input, ref, auth, manifest, idx, app, result, histVars, trace>>

\* A call of Client::create_or_update_app: where it is, whether list_apps
\* returned the list, the app id it goes on with, the requests it has sent.
CloudCall(st, n, v) ==
  [fn |-> "create_or_update_app", stage |-> st, name |-> n, version |-> v,
   listed |-> FALSE, app_id |-> NoId, requests |-> <<>>, ret |-> "None"]
CloudAt(st) == call.fn = "create_or_update_app" /\ call.stage = st
Sent(c, rq) == [c EXCEPT !.requests = c.requests \o rq]

\* items.iter().find(|a| a.name == name): the first app of the list with the name.
AppsNamed(n) == {a \in platform.apps : a.name = n}
FindApp(n) == CHOOSE a \in AppsNamed(n) : \A b \in AppsNamed(n) : a.id <= b.id
\* find(|&x| x.app_id == app_id && x.name == name) over the channels.
ChannelsOf(id, n) == {c \in platform.channels : c.app_id = id /\ c.name = n}
FindChannel(id, n) == CHOOSE c \in ChannelsOf(id, n) : \A d \in ChannelsOf(id, n) : c.id <= d.id
\* find(|&x| x.revision_number == version && x.app_id == app) over the revisions.
RevisionsOf(id, v) == {r \in platform.revisions : r.revision_number = v /\ r.app_id = id}

CreateOrUpdateAppStart(n, v) ==
  /\ Quiet
  /\ call' = CloudCall("get_app", n, v)
  /\ UNCHANGED <<platform, CloudFrame>>

\* get_app: list_apps returned the list and an app has the name: Ok(app.id),
\* the arm that updates ...
GetAppFound ==
  /\ CloudAt("get_app")
  /\ AppsNamed(call.name) # {}
  /\ call' = [Sent(call, <<"apps_get">>) EXCEPT
                !.stage = "add_revision", !.listed = TRUE, !.app_id = FindApp(call.name).id]
  /\ UNCHANGED <<platform, CloudFrame>>

\* ... or no app has it: Err("Application not found"), the arm that creates ...
GetAppNotFound ==
  /\ CloudAt("get_app")
  /\ AppsNamed(call.name) = {}
  /\ call' = [Sent(call, <<"apps_get">>) EXCEPT !.stage = "add_app", !.listed = TRUE]
  /\ UNCHANGED <<platform, CloudFrame>>

\* ... or list_apps failed: the `?` of get_app returns its error, and
\* Err(_) is the arm that creates.
GetAppListErr ==
  /\ CloudAt("get_app")
  /\ call' = [Sent(call, <<"apps_get">>) EXCEPT !.stage = "add_app"]
  /\ UNCHANGED <<platform, CloudFrame>>

\* add_revision(name, version): the platform registers the revision for
\* every app stored under the name ...
AddRevisionOk ==
  /\ CloudAt("add_revision")
  /\ platform' = [platform EXCEPT !.revisions =
       @ \cup {[app_id |-> a.id, revision_number |-> call.version] :
                 a \in {b \in platform.apps : b.storage_id = call.name}}]
  /\ call' = [Sent(call, <<"revisions_post">>) EXCEPT !.stage = "update_app"]
  /\ UNCHANGED CloudFrame

\* ... or the request fails.
AddRevisionErr ==
  /\ CloudAt("add_revision")
  /\ call' = [Sent(call, <<"revisions_post">>) EXCEPT !.stage = "failed", !.ret = "Err"]
  /\ UNCHANGED <<platform, CloudFrame>>

\* update_app(app_id, name, version): the channel of the app named after it
\* is patched to the revision, and returned as list_channels gave it ...
UpdateAppOk ==
  /\ CloudAt("update_app")
  /\ ChannelsOf(call.app_id, call.name) # {}
  /\ RevisionsOf(call.app_id, call.version) # {}
  /\ LET channel == FindChannel(call.app_id, call.name)
         patched == [channel EXCEPT
                       !.revision_selection_strategy = "UseSpecifiedRevision",
                       !.active_revision = call.version]
     IN /\ platform' = [platform EXCEPT !.channels = (@ \ {channel}) \cup {patched}]
        /\ call' = [Sent(call, <<"channels_get", "revisions_get", "channels_patch">>) EXCEPT
                      !.stage = "done", !.ret = channel]
  /\ UNCHANGED CloudFrame

\* ... or there is no such channel ...
UpdateAppNoChannel ==
  /\ CloudAt("update_app")
  /\ ChannelsOf(call.app_id, call.name) = {}
  /\ call' = [Sent(call, <<"channels_get">>) EXCEPT !.stage = "failed", !.ret = "Err"]
  /\ UNCHANGED <<platform, CloudFrame>>

\* ... or a request of it fails.
UpdateAppErr ==
  /\ CloudAt("update_app")
  /\ call' = [Sent(call, <<"channels_get">>) EXCEPT !.stage = "failed", !.ret = "Err"]
  /\ UNCHANGED <<platform, CloudFrame>>

\* add_app(name, name): the platform makes the app and answers its id ...
AddAppOk ==
  /\ CloudAt("add_app")
  /\ Cardinality(platform.apps) < MaxApps
  /\ LET id == Cardinality(platform.apps) + 1
     IN /\ platform' = [platform EXCEPT !.apps =
             @ \cup {[id |-> id, name |-> call.name, storage_id |-> call.name]}]
        /\ call' = [Sent(call, <<"apps_post">>) EXCEPT !.stage = "add_channel", !.app_id = id]
  /\ UNCHANGED CloudFrame

\* ... or refuses.
AddAppErr ==
  /\ CloudAt("add_app")
  /\ call' = [Sent(call, <<"apps_post">>) EXCEPT !.stage = "failed", !.ret = "Err"]
  /\ UNCHANGED <<platform, CloudFrame>>

\* add_channel(app_id, name, UseRangeRule, Some(version), None): the channel
\* is made and read back ...
NewChannel ==
  [id |-> Cardinality(platform.channels) + 1, app_id |-> call.app_id, name |-> call.name,
   revision_selection_strategy |-> "UseRangeRule", range_rule |-> call.version,
   active_revision |-> "None"]
AddChannelOk ==
  /\ CloudAt("add_channel")
  /\ Cardinality(platform.channels) < MaxChannels
  /\ platform' = [platform EXCEPT !.channels = @ \cup {NewChannel}]
  /\ call' = [Sent(call, <<"channels_post", "channels_id_get">>) EXCEPT
                !.stage = "done", !.ret = NewChannel]
  /\ UNCHANGED CloudFrame

\* ... or is made and the read fails ...
AddChannelGetErr ==
  /\ CloudAt("add_channel")
  /\ Cardinality(platform.channels) < MaxChannels
  /\ platform' = [platform EXCEPT !.channels = @ \cup {NewChannel}]
  /\ call' = [Sent(call, <<"channels_post", "channels_id_get">>) EXCEPT
                !.stage = "failed", !.ret = "Err"]
  /\ UNCHANGED CloudFrame

\* ... or is not made.
AddChannelErr ==
  /\ CloudAt("add_channel")
  /\ call' = [Sent(call, <<"channels_post">>) EXCEPT !.stage = "failed", !.ret = "Err"]
  /\ UNCHANGED <<platform, CloudFrame>>


\* ---------------------------------------- deploy: deploy.rs, clients/mod.rs
\* The bindle ids deployed (name and version of the invoice), and what
\* spin_publish::push_all can answer with: Ok, or an error with its message.
BindleIds == {[name |-> n, version |-> "1.0.0"] : n \in CloudNames}
PushedOk == <<"Ok">>
ALREADY_EXISTS == "already exists on the server"
AlreadyExistsErr == <<"invoice", ALREADY_EXISTS>>
OtherPushErrs == {<<"error sending request">>, <<"unauthorized">>}
Contains(msg, part) == \E i \in 1..Len(msg) : msg[i] = part

\* create_and_push_bindle from publish_result on: the id for a push that
\* went through, and for a bindle that is there already when redeploy is
\* set; a registry error for every other failure.
PushOutcomeIgnoreRedeploy(publish_result, bindle_id, redeploy) ==
  IF publish_result = PushedOk \/ Contains(publish_result, ALREADY_EXISTS)
  THEN [ok |-> TRUE, id |-> bindle_id]
  ELSE [ok |-> FALSE, err |-> "RegistryError"]
PushOutcome(publish_result, bindle_id, redeploy) ==
  IF publish_result = PushedOk
  THEN [ok |-> TRUE, id |-> bindle_id]
  ELSE IF Contains(publish_result, ALREADY_EXISTS) /\ redeploy
       THEN [ok |-> TRUE, id |-> bindle_id]
       ELSE [ok |-> FALSE, err |-> "RegistryError"]

\* A call of DeploymentClient::deploy: where it is, the id of the bindle,
\* the flag, what push_all and push_to_registry returned, the calls made.
NotPushed == [ok |-> FALSE, err |-> "None"]
DeployCall(st, id, redeploy) ==
  [fn |-> "deploy", stage |-> st, id |-> id, redeploy |-> redeploy,
   publish_result |-> <<>>, pushed |-> NotPushed, events |-> <<>>, ret |-> "None"]
DeployAt(st) == call.fn = "deploy" /\ call.stage = st
\* The platform call a deploy is waiting for.
InDeploy == call.fn = "create_or_update_app" /\ "deploy" \in DOMAIN call
Idle == Quiet /\ ~InDeploy

\* deploy on a standalone-registry connection: todo!().
DeployStandalone(id, redeploy) ==
  /\ Idle
  /\ call' = [DeployCall("panicked", id, redeploy) EXCEPT !.ret = "todo"]
  /\ UNCHANGED <<platform, CloudFrame>>

\* deploy on a proxied-registry connection: push_to_registry goes into
\* create_and_push_bindle.
DeployStart(id, redeploy) ==
  /\ Idle
  /\ call' = [DeployCall("staging", id, redeploy) EXCEPT !.events = <<"push_to_registry">>]
  /\ UNCHANGED <<platform, CloudFrame>>

\* app_dir, tempdir, expand_manifest and write stage the bindle ...
DeployStaged ==
  /\ DeployAt("staging")
  /\ call' = [call EXCEPT !.stage = "push_all"]
  /\ UNCHANGED <<platform, CloudFrame>>

\* ... or one of them fails, and the `?` of deploy returns the error.
DeployStagingErr(e) ==
  /\ DeployAt("staging")
  /\ call' = [call EXCEPT !.stage = "failed",
                          !.pushed = [ok |-> FALSE, err |-> e], !.ret = e]
  /\ UNCHANGED <<platform, CloudFrame>>

\* push_all answers: the registry takes the bindle, or has it already, or
\* the push fails otherwise; deploy goes on with the id or returns the error.
PushAllGoesOn(publish_result) ==
  /\ DeployAt("push_all")
  /\ publish_result = PushedOk => call.id \notin platform.bindles
  /\ publish_result = AlreadyExistsErr => call.id \in platform.bindles
  /\ platform' = [platform EXCEPT !.bindles =
                    IF publish_result = PushedOk THEN @ \cup {call.id} ELSE @]
  /\ LET out == PushOutcome(publish_result, call.id, call.redeploy)
     IN call' = [call EXCEPT !.stage = "pushed",
                             !.publish_result = publish_result, !.pushed = out]
  /\ UNCHANGED CloudFrame
PushAll(publish_result) ==
  /\ DeployAt("push_all")
  /\ publish_result = PushedOk => call.id \notin platform.bindles
  /\ publish_result = AlreadyExistsErr => call.id \in platform.bindles
  /\ platform' = [platform EXCEPT !.bindles =
                    IF publish_result = PushedOk THEN @ \cup {call.id} ELSE @]
  /\ LET out == PushOutcome(publish_result, call.id, call.redeploy)
     IN call' = [call EXCEPT !.stage = IF out.ok THEN "pushed" ELSE "failed",
                             !.publish_result = publish_result, !.pushed = out,
                             !.ret = IF out.ok THEN @ ELSE out.err]
  /\ UNCHANGED CloudFrame

\* create_or_update_application: Client::create_or_update_app with the name
\* and the version of the id ...
DeployCreateOrUpdate ==
  /\ DeployAt("pushed")
  /\ call' = CloudCall("get_app", call.id.name, call.id.version)
               @@ [deploy |-> [call EXCEPT !.events = @ \o <<"create_or_update_app">>]]
  /\ UNCHANGED <<platform, CloudFrame>>

\* ... and its channel makes the ApplicationInfo, or its error is returned.
DeployReturn ==
  /\ InDeploy
  /\ call.stage \in {"done", "failed"}
  /\ call' = [call.deploy EXCEPT
                !.stage = call.stage,
                !.ret = IF call.stage = "done"
                        THEN [name |-> call.deploy.id.name,
                              version |-> call.deploy.id.version, channel |-> call.ret.id]
                        ELSE "DeploymentError"]
  /\ UNCHANGED <<platform, CloudFrame>>


\* ------------------------------------------- login: commands/cloud_login.rs
\* The timeout and the sleep Login::run polls with, in seconds.
LOGIN_TIMEOUT == 15 * 60
LOGIN_SLEEP == 5
\* The tokens the platform hands out, and what a failed check says.
Tokens == {"t1", "t2"}
CheckErrors == {"unauthorized", "error sending request"}
NotPolled == [ok |-> FALSE, err |-> "None"]
DeviceCodeNotAuthorized(msg) == [ok |-> FALSE, err |-> "DeviceCodeNotAuthorized", msg |-> msg]

\* A call of check_device_code_with_timeout(auth, code, timeout, sleep):
\* where it is, `elapsed`, the checks sent and the sleeps in order, the
\* lines printed, what it returned.
PollCall(timeout, sleep) ==
  [fn |-> "check_device_code_with_timeout", stage |-> "poll_top",
   timeout |-> timeout, sleep |-> sleep, elapsed |-> 0,
   events |-> <<>>, out |-> <<>>, polled |-> NotPolled]
\* The function returns to Login::run, or to its caller.
PollReturn(c, res) ==
  [c EXCEPT !.polled = res,
            !.stage = IF c.fn = "login" THEN "polled"
                      ELSE IF res.ok THEN "done" ELSE "failed"]

CheckDeviceCodeWithTimeout(timeout, sleep) ==
  /\ Idle
  /\ call' = PollCall(timeout, sleep)
  /\ UNCHANGED <<platform, CloudFrame>>

\* loop { if elapsed > timeout { return Err(Timeout) } check_device_code ...
PollLoopGe ==
  /\ call.stage = "poll_top"
  /\ call' = IF call.elapsed >= call.timeout
             THEN PollReturn(call, [ok |-> FALSE, err |-> "Timeout"])
             ELSE [call EXCEPT !.stage = "poll_check", !.events = @ \o <<"check">>]
  /\ UNCHANGED <<platform, CloudFrame>>
PollLoop ==
  /\ call.stage = "poll_top"
  /\ call' = IF call.elapsed > call.timeout
             THEN PollReturn(call, [ok |-> FALSE, err |-> "Timeout"])
             ELSE [call EXCEPT !.stage = "poll_check", !.events = @ \o <<"check">>]
  /\ UNCHANGED <<platform, CloudFrame>>

\* ... Ok(token_info) => return Ok(token_info): the platform answered the
\* check with a token ...
CheckDeviceCodeOk(token, expiration) ==
  /\ call.stage = "poll_check"
  /\ call' = PollReturn(call, [ok |-> TRUE, token |-> token, expiration |-> expiration])
  /\ UNCHANGED <<platform, CloudFrame>>

\* ... Err(err): with no token, or the request failed. With a timeout the
\* function prints, sleeps, adds the sleep to elapsed and goes round;
\* without one it returns the error.
CheckDeviceCodeErrWaiting(msg) ==
  /\ call.stage = "poll_check"
  /\ call' = IF call.timeout > 0
             THEN [call EXCEPT !.stage = "poll_top",
                               !.out = @ \o <<"waiting">>,
                               !.events = @ \o <<"sleep">>,
                               !.elapsed = @ + call.sleep]
             ELSE PollReturn(call, [ok |-> FALSE, err |-> "WaitingAuthorization"])
  /\ UNCHANGED <<platform, CloudFrame>>
CheckDeviceCodeErr(msg) ==
  /\ call.stage = "poll_check"
  /\ call' = IF call.timeout > 0
             THEN [call EXCEPT !.stage = "poll_top",
                               !.out = @ \o <<"waiting">>,
                               !.events = @ \o <<"sleep">>,
                               !.elapsed = @ + call.sleep]
             ELSE PollReturn(call, DeviceCodeNotAuthorized(msg))
  /\ UNCHANGED <<platform, CloudFrame>>

\* The steps of the function once it is called.
Poll ==
  \/ PollLoop
  \/ \E tk \in Tokens : CheckDeviceCodeOk(tk, "T2")
  \/ \E msg \in CheckErrors : CheckDeviceCodeErr(msg)


\* ------------------------------------ login: Login::run, config.rs, auth.rs
\* The configuration file, <config dir>/fermyon/auth.json, and the
\* connection in it as serde_json writes and reads it.
FERMYON_DIR == <<"fermyon">>
AUTH_PATH == <<"fermyon", "auth.json">>
DefaultConn == [url |-> <<>>, token |-> "", expiration |-> "", insecure |-> FALSE]
SerdeError == [url |-> <<"Serde">>, token |-> "Serde", expiration |-> "Serde", insecure |-> FALSE]
ConnJson(c) == <<"ProxiedRegistry", c.url, c.token, c.expiration, c.insecure>>
ConnFromJson(b) ==
  IF Len(b) = 5 /\ b[1] = "ProxiedRegistry"
  THEN [url |-> b[2], token |-> b[3], expiration |-> b[4], insecure |-> b[5]]
  ELSE SerdeError
\* Config::new: the connection of the file, the default one without a file.
ConfigNew(fs) ==
  IF fs[AUTH_PATH].exists THEN ConnFromJson(fs[AUTH_PATH].bytes) ELSE DefaultConn

\* DateTime::parse_from_rfc3339 on the expiration of a token, -1 for a
\* string that is no time; the times `now` is taken from.
Rfc3339 == [T2 |-> 2]
ParseTime(s) == IF s \in DOMAIN Rfc3339 THEN Rfc3339[s] ELSE -1
Times == {1, 2, 3}
\* is_token_valid: Ok(false) past the expiration, Ok(true) otherwise.
IsTokenValid(now, expiration) == ~(now > expiration)

\* url.strip_suffix('/').
GivenUrls == {<<"http://cloud">>, <<"http://cloud", "/">>}
StripSuffix(u) == IF Len(u) > 0 /\ u[Len(u)] = "/" THEN SubSeq(u, 1, Len(u) - 1) ELSE u
NoCode == "None"

\* A run of `spin login`: the flags, and the polling it goes into.
LoginCall(st, status, check, get, url, insecure) ==
  [PollCall(0, 0) EXCEPT !.fn = "login", !.stage = st]
    @@ [status |-> status, check_device_code |-> check, get_device_code |-> get,
        given |-> url, url |-> StripSuffix(url), insecure |-> insecure, phase |-> "check"]
LoginAt(st) == call.fn = "login" /\ call.stage = st

\* Login::run with --status ...
LoginStatusStart(url, insecure) ==
  /\ Idle
  /\ AUTH_PATH \in DOMAIN files
  /\ call' = LoginCall("status", TRUE, NoCode, FALSE, url, insecure)
  /\ UNCHANGED <<platform, CloudFrame>>

\* ... with --check-device-code: check_device_code_with_timeout(code, 0, 0) ...
LoginCheckStart(code, url, insecure) ==
  /\ Idle
  /\ AUTH_PATH \in DOMAIN files
  /\ call' = LoginCall("poll_top", FALSE, code, FALSE, url, insecure)
  /\ UNCHANGED <<platform, CloudFrame>>

\* ... with --get-device-code, or with none of them.
LoginStart(get, url, insecure) ==
  /\ Idle
  /\ AUTH_PATH \in DOMAIN files
  /\ call' = LoginCall("get_device_code", FALSE, NoCode, get, url, insecure)
  /\ UNCHANGED <<platform, CloudFrame>>

\* --status: Config::new makes sure of the directory and reads the file;
\* the file is named, the token is said to be no longer valid when it is
\* not, and said to be valid until its expiration.
LoginStatus(now) ==
  /\ LoginAt("status")
  /\ dirs' = dirs \cup {FERMYON_DIR}
  /\ LET auth_ == ConfigNew(files)
         expiration == ParseTime(auth_.expiration)
     IN call' =
          IF auth_ = SerdeError
          THEN [call EXCEPT !.stage = "failed"]
          ELSE IF expiration = -1
          THEN [call EXCEPT !.stage = "failed", !.out = <<"Using configuration file">>]
          ELSE [call EXCEPT !.stage = "done", !.out =
                  <<"Using configuration file">>
                  \o (IF ~IsTokenValid(now, expiration)
                      THEN <<"is no longer valid">> ELSE <<>>)
                  \o <<"is valid until">>]
  /\ UNCHANGED <<platform, uploads, client, files, prevFiles,
                 pc, input, ref, auth, manifest, idx, app, result, histVars, trace>>

\* --check-device-code, the check has returned: the token is printed; or,
\* by the error, a status is printed, and only for an error that is neither
\* WaitingAuthorization nor Timeout does run return there.
LoginChecked ==
  /\ LoginAt("polled")
  /\ call.phase = "check"
  /\ call' =
       IF call.polled.ok
       THEN [call EXCEPT !.stage = "done", !.out = @ \o <<<<"token", call.polled.token>>>>]
       ELSE IF call.polled.err = "WaitingAuthorization"
       THEN [call EXCEPT !.stage = "get_device_code", !.out = @ \o <<<<"status", "waiting">>>>]
       ELSE IF call.polled.err = "Timeout"
       THEN [call EXCEPT !.stage = "get_device_code", !.out = @ \o <<<<"status", "timeout">>>>]
       ELSE [call EXCEPT !.stage = "done", !.out = @ \o <<<<"status", "unauthorized">>>>]
  /\ UNCHANGED <<platform, CloudFrame>>

\* auth.get_device_code(): the platform makes a device code; with
\* --get-device-code it is printed and that is all, otherwise the user is
\* told where to enter the user code and the polling starts ...
GetDeviceCode ==
  /\ LoginAt("get_device_code")
  /\ call' =
       IF call.get_device_code
       THEN [call EXCEPT !.stage = "done", !.events = @ \o <<"get_device_code">>,
                         !.out = @ \o <<"device code">>]
       ELSE [call EXCEPT !.stage = "poll_top", !.phase = "flow",
                         !.events = @ \o <<"get_device_code">>,
                         !.out = @ \o <<"Open in your browser">>,
                         !.timeout = LOGIN_TIMEOUT, !.sleep = LOGIN_SLEEP,
                         !.elapsed = 0, !.polled = NotPolled]
  /\ UNCHANGED <<platform, CloudFrame>>

\* ... or the request fails: "cannot get device code".
GetDeviceCodeErr ==
  /\ LoginAt("get_device_code")
  /\ call' = [call EXCEPT !.stage = "failed", !.events = @ \o <<"get_device_code">>]
  /\ UNCHANGED <<platform, CloudFrame>>

\* The polling of the whole flow has returned. Its error is returned; with
\* a token, Config::new_with_auth reads the configuration there is and
\* puts the new connection in it, and commit writes the file.
LoginCommit ==
  /\ LoginAt("polled")
  /\ call.phase = "flow"
  /\ dirs' = IF call.polled.ok THEN dirs \cup {FERMYON_DIR} ELSE dirs
  /\ LET written == call.polled.ok /\ ConfigNew(files) # SerdeError
         conn == [url |-> call.url, token |-> call.polled.token,
                  expiration |-> call.polled.expiration, insecure |-> call.insecure]
     IN /\ files' = IF written
                    THEN [files EXCEPT ![AUTH_PATH] = FileOf(ConnJson(conn))] ELSE files
        /\ call' = [call EXCEPT !.stage = IF written THEN "done" ELSE "failed",
                                !.events = IF written THEN @ \o <<"commit">> ELSE @]
  /\ UNCHANGED <<platform, uploads, client, prevFiles,
                 pc, input, ref, auth, manifest, idx, app, result, histVars, trace>>

\* commit: the file cannot be opened ...
LoginCommitOpenErr ==
  /\ LoginAt("polled")
  /\ call.phase = "flow"
  /\ call.polled.ok
  /\ ConfigNew(files) # SerdeError
  /\ dirs' = dirs \cup {FERMYON_DIR}
  /\ call' = [call EXCEPT !.stage = "failed", !.events = @ \o <<"commit">>]
  /\ UNCHANGED <<platform, uploads, client, files, prevFiles,
                 pc, input, ref, auth, manifest, idx, app, result, histVars, trace>>

\* ... or is opened, which truncates it, and the write fails.
LoginCommitWriteErr ==
  /\ LoginAt("polled")
  /\ call.phase = "flow"
  /\ call.polled.ok
  /\ ConfigNew(files) # SerdeError
  /\ dirs' = dirs \cup {FERMYON_DIR}
  /\ files' = [files EXCEPT ![AUTH_PATH] = Truncated]
  /\ call' = [call EXCEPT !.stage = "failed", !.events = @ \o <<"commit">>]
  /\ UNCHANGED <<platform, uploads, client, prevFiles,
                 pc, input, ref, auth, manifest, idx, app, result, histVars, trace>>


\* ---------------------------------------------------------- specifications
\* The steps of old_pull that succeed ...
PullOk(p) ==
  \/ OldPullAuth(p)
  \/ PullImageManifest(p)
  \/ WriteManifestOpen(p)
  \/ WriteManifestData(p)
  \/ PullConfig(p)
  \/ WriteConfigOpen(p)
  \/ WriteConfigData(p)
  \/ LayerSkip(p)
  \/ LayerMiss(p)
  \/ PullBlob(p)
  \/ WriteBlobOpen(p)
  \/ WriteBlobData(p)
  \/ OldPullReturn(p)

\* ... and the ones that end it with an error, or with the process gone.
PullErr(p) ==
  \/ OldPullAuthErr(p)
  \/ PullImageManifestErr(p)
  \/ WriteManifestOpenErr(p)
  \/ WriteManifestDataErr(p)
  \/ PullConfigErr(p)
  \/ WriteConfigOpenErr(p)
  \/ WriteConfigDataErr(p)
  \/ PullBlobErr(p)
  \/ WriteBlobOpenErr(p)
  \/ WriteBlobDataErr(p)
  \/ Abandon(p)

\* One client pulling the moving tag again and again, with every failure
\* old_pull can meet.
Next ==
  \/ OldPullStart(1, MovingRefString)
  \/ PullOk(1)
  \/ PullErr(1)
Spec == Init /\ [][Next]_vars

\* Two clients on one cache root, one pulling the moving tag and one the
\* release tag, again and again; the registry answers every request and no
\* file operation fails.
NextConc ==
  \/ OldPullStart(1, MovingRefString)
  \/ \E s \in TaggedRefStrings \ {MovingRefString} : OldPullStart(2, s)
  \/ \E p \in Procs : PullOk(p)
SpecConc == Init /\ [][NextConc]_vars

\* One client pushing and pulling; the registry answers every request and no
\* file operation fails.
NextPush ==
  \/ \E a \in Apps, s \in TaggedRefStrings : PushStart(1, a, s)
  \/ Push(1)
  \/ PushAuthErr(1)
  \/ \E s \in TaggedRefStrings : OldPullStart(1, s)
  \/ PullOk(1)
SpecPush == Init /\ [][NextPush]_vars

\* One client run from the command line with any reference string but the
\* ones of the moving tag: pulls and pushes, with every failure they can meet.
CliRefStrings == RefStrings \ {MovingRefString, <<"reg", "/", "app">>}
NextCli ==
  \/ \E s \in CliRefStrings : OldPullStart(1, s)
  \/ \E s \in CliRefStrings : OldPullParseErr(1, s)
  \/ PullOk(1)
  \/ PullErr(1)
  \/ \E a \in Apps, s \in CliRefStrings : PushStart(1, a, s)
  \/ \E a \in Apps, s \in CliRefStrings : PushParseErr(1, a, s)
  \/ Push(1)
  \/ PushAuthErr(1)
SpecCli == Init /\ [][NextCli]_vars

\* A cache root from its creation on: direct calls of Cache's functions and
\* of Client::auth, one at a time, with every failure they can meet.
NextCache ==
  \/ CacheNew
  \/ CacheNewErr
  \/ \E fn \in {"write_wasm", "write_data"}, b \in Blobs, d \in Digests :
       CacheWriteOpen(fn, b, d)
  \/ CacheWriteData
  \/ CacheWriteErr
  \/ \E fn \in {"manifest_for_reference", "config_for_reference"}, r \in AllRefs :
       PathCall(fn, r)
  \/ \E fn \in {"manifest_for_reference", "config_for_reference"}, r \in AllRefs :
       PathCallErr(fn, r)
  \/ \E r \in AllRefs, c \in AllCredentials : AuthCall(r, c)
SpecCache == InitFresh /\ [][NextCache]_vars

\* A cache root from its creation on: pulls of the release tag and direct
\* writes of blobs under their digests, one at a time, with every failure
\* they can meet.
ReleaseRefStrings == TaggedRefStrings \ {MovingRefString}
NextLayout ==
  \/ CacheNew
  \/ CacheNewErr
  \/ \E fn \in {"write_wasm", "write_data"}, d \in Digests :
       CacheWriteOpen(fn, BlobBytes(d), d)
  \/ CacheWriteData
  \/ CacheWriteErr
  \/ \E s \in ReleaseRefStrings : Quiet /\ Made /\ OldPullStart(1, s)
  \/ PullOk(1)
  \/ PullErr(1)
SpecLayout == (InitFresh \/ InitRootIsFile) /\ [][NextLayout]_vars

\* Client::descriptor on a client that also pulls the release tag, one call
\* at a time, with every failure they can meet.
DescRefStrings == {<<"reg", "/", "app", ":", "v1">>, <<"reg", "/", "app">>}
Descriptor ==
  \/ \E s \in DescRefStrings : DescriptorStart(s)
  \/ DescriptorParseErr(<<"reg", "/", "app", ":">>)
  \/ DescriptorPaths
  \/ DescriptorPathsErr
  \/ DescriptorPull
  \/ DescriptorCached
  \/ DescriptorPulled
  \/ DescriptorPullFailed
  \/ DescriptorRead
  \/ DescriptorReadErr
NextDesc ==
  \/ Descriptor
  \/ \E s \in ReleaseRefStrings : Quiet /\ OldPullStart(1, s)
  \/ PullOk(1)
  \/ PullErr(1)
SpecDesc == Init /\ [][NextDesc]_vars

\* Clients made with and without the insecure flag, each pulling the
\* release tag again and again with every failure old_pull can meet.
InitProtocol ==
  \E insecure \in BOOLEAN : InitClient(insecure, [f \in FilePaths |-> NoFile], LayoutDirs)
NextProtocol ==
  \/ \E s \in ReleaseRefStrings : OldPullStart(1, s)
  \/ PullOk(1)
  \/ PullErr(1)
SpecProtocol == InitProtocol /\ [][NextProtocol]_vars

\* Deployments of two names in two versions to one platform, one call at a
\* time, with every failure a request can meet.
NextCloud ==
  \/ \E n \in CloudNames, v \in CloudVersions : CreateOrUpdateAppStart(n, v)
  \/ GetAppFound
  \/ GetAppNotFound
  \/ GetAppListErr
  \/ AddRevisionOk
  \/ AddRevisionErr
  \/ UpdateAppOk
  \/ UpdateAppNoChannel
  \/ UpdateAppErr
  \/ AddAppOk
  \/ AddAppErr
  \/ AddChannelOk
  \/ AddChannelGetErr
  \/ AddChannelErr
SpecCloud == Init /\ [][NextCloud]_vars

\* Deployments of bindles over a proxied registry, with and without
\* redeploy, one at a time, with every failure a step can meet.
CloudSteps ==
  \/ GetAppFound
  \/ GetAppNotFound
  \/ GetAppListErr
  \/ AddRevisionOk
  \/ AddRevisionErr
  \/ UpdateAppOk
  \/ UpdateAppNoChannel
  \/ UpdateAppErr
  \/ AddAppOk
  \/ AddAppErr
  \/ AddChannelOk
  \/ AddChannelGetErr
  \/ AddChannelErr
NextDeploy ==
  \/ \E id \in BindleIds, redeploy \in BOOLEAN : DeployStart(id, redeploy)
  \/ \E id \in BindleIds : DeployStandalone(id, FALSE)
  \/ DeployStaged
  \/ \E e \in {"RegistryError", "IO"} : DeployStagingErr(e)
  \/ \E r \in {PushedOk, AlreadyExistsErr} \cup OtherPushErrs : PushAll(r)
  \/ DeployCreateOrUpdate
  \/ DeployReturn
  \/ CloudSteps
SpecDeploy == Init /\ [][NextDeploy]_vars

\* check_device_code_with_timeout called with timeouts and sleeps of a few
\* seconds and with those of the login, every check answered either way;
\* a check that was sent is answered, a sleep ends.
PollTimeouts == {1, 2, 3, 5, 7}
PollSleeps == {1, 2, 3}
NextPoll ==
  \/ \E timeout \in PollTimeouts, sleep \in PollSleeps :
       CheckDeviceCodeWithTimeout(timeout, sleep)
  \/ CheckDeviceCodeWithTimeout(LOGIN_TIMEOUT, LOGIN_SLEEP)
  \/ Poll
SpecPoll == Init /\ [][NextPoll]_vars /\ WF_vars(Poll)

\* `spin login` in each of its modes, run again and again on one
\* configuration file, with every failure a step can meet.
InitLogin == InitOn([f \in FilePaths \cup {AUTH_PATH} |-> NoFile], LayoutDirs)
NextLogin ==
  \/ \E url \in GivenUrls, insecure \in BOOLEAN : LoginStatusStart(url, insecure)
  \/ \E url \in GivenUrls, insecure \in BOOLEAN : LoginCheckStart("dc1", url, insecure)
  \/ \E get \in BOOLEAN, url \in GivenUrls, insecure \in BOOLEAN : LoginStart(get, url, insecure)
  \/ \E now \in Times : LoginStatus(now)
  \/ LoginChecked
  \/ GetDeviceCode
  \/ GetDeviceCodeErr
  \/ LoginCommit
  \/ LoginCommitOpenErr
  \/ LoginCommitWriteErr
  \/ Poll
SpecLogin == InitLogin /\ [][NextLogin]_vars

\* ------------------------------------------------------------------ claims
Pulled(p) == pc[p] = "idle" /\ result[p] = "Pulled"
NumLayers(p) == Len(manifest[p].layers)
\* The layers whose digest had a file in wasm/ or data/ when the pull started.
CachedAtStart(p) ==
  {j \in 1..NumLayers(p) : manifest[p].layers[j].digest \in startCache[p]}
\* The layers the loop has passed without a fetch.
Skipped(p) == {j \in 1..(idx[p] - 1) : j \notin fetchedIdx[p]}
\* The blob of a digest is in the cache with all its bytes.
Complete(d) ==
  \/ wasm[d] = [exists |-> TRUE, bytes |-> <<"blob", d>>]
  \/ data[d] = [exists |-> TRUE, bytes |-> <<"blob", d>>]
InLayers(p) == pc[p] \in {"layer", "layer_fetch", "layer_open", "layer_write"}

\* C1 (as stated): a pull that returns Pulled for a manifest with N layers,
\* K of them with a blob file at the start, has made exactly N-K layer
\* fetches and none for a layer that was present.
C1_FetchesNMinusK ==
  \A p \in Procs :
    Pulled(p) =>
      /\ Cardinality(fetchedIdx[p]) = NumLayers(p) - Cardinality(CachedAtStart(p))
      /\ fetchedIdx[p] \cap CachedAtStart(p) = {}

\* C1 (amended): a pull that returns Pulled has made exactly one layer fetch
\* for each distinct digest of the manifest that had no blob file at the
\* start, at the first layer naming it, and none for a layer that was present.
C1_OneFetchPerMissingDigest ==
  \A p \in Procs :
    Pulled(p) =>
      /\ fetchedIdx[p] \cap CachedAtStart(p) = {}
      /\ fetchedIdx[p] =
           {j \in 1..NumLayers(p) :
              /\ manifest[p].layers[j].digest \notin startCache[p]
              /\ \A i \in 1..(j - 1) :
                   manifest[p].layers[i].digest # manifest[p].layers[j].digest}
      /\ Cardinality(fetchedIdx[p]) =
           Cardinality({manifest[p].layers[j].digest : j \in 1..NumLayers(p)}
                         \ startCache[p])

\* A pull ended Pulled having skipped a cached layer and fetched a missing one.
C1_Witness ==
  /\ Pulled(1)
  /\ CachedAtStart(1) # {}
  /\ fetchedIdx[1] # {}

C3_BlobWrittenOnce ==
  /\ [](\A d \in Digests : writes[d] <= 1)
  /\ [][\A d \in Digests :
          ((wasm[d].exists \/ data[d].exists)
             /\ ~\E p \in Procs : pc[p] = "layer_write" /\ Layer(p).digest = d)
          => (wasm'[d] = wasm[d] /\ data'[d] = data[d])]_vars

\* A pull returned Pulled for a manifest with a layer an earlier pull wrote.
C3_Witness ==
  /\ Pulled(1)
  /\ \E j \in 1..NumLayers(1) :
       /\ manifest[1].layers[j].digest \in startCache[1]
       /\ writes[manifest[1].layers[j].digest] = 1
       /\ Complete(manifest[1].layers[j].digest)

\* C4: after a pull that returned Pulled, manifest.json of its reference holds
\* the manifest the registry returned in that pull and config.json the config
\* blob of that manifest, whatever the files held before.
C4_LatestWins ==
  \A p \in Procs :
    Pulled(p) =>
      /\ manifestJson[ref[p]] =
           [exists |-> TRUE,
            bytes |-> <<"manifest", manifest[p].config, manifest[p].layers>>]
      /\ configJson[ref[p]] =
           [exists |-> TRUE, bytes |-> <<"config", manifest[p].config>>]

\* A pull returned Pulled after overwriting the manifest.json of another manifest.
C4_Witness == Pulled(1) /\ replaced[1]

\* C5 (as stated): a pull never skips a layer whose blob file lacks bytes.
C5_PartialBlobNotSkipped ==
  \A p \in Procs :
    \A j \in Skipped(p) : Complete(manifest[p].layers[j].digest)

\* C6 (as stated): with two pulls running on one cache root, a pull that
\* returns Pulled has every layer of its manifest in the cache with all its
\* bytes.
C6_ConcurrentPullsComplete ==
  \A p \in Procs :
    Pulled(p) =>
      \A j \in 1..NumLayers(p) : Complete(manifest[p].layers[j].digest)

\* What a push of application a to reference r uploads, in order: the config
\* blob, the layer blobs in manifest order, the manifest.
PushUploads(a, r) ==
  <<[kind |-> "config", ref |-> r, item |-> 0, manifest |-> a]>>
    \o [j \in 1..Len(a.layers) |-> [kind |-> "blob", ref |-> r, item |-> j, manifest |-> a]]
    \o <<[kind |-> "manifest", ref |-> r, item |-> 0, manifest |-> a]>>
IsSuffix(s, t) ==
  /\ Len(s) <= Len(t)
  /\ SubSeq(t, Len(t) - Len(s) + 1, Len(t)) = s
Pushed(p) == pc[p] = "idle" /\ result[p] = "Pushed"

\* C7 (as stated): a push that returned has uploaded the config blob, then
\* each layer blob in manifest order, then the manifest.
C7_PushOrder ==
  \A p \in Procs :
    Pushed(p) => IsSuffix(PushUploads(app[p], ref[p]), uploads)

\* C8 (as stated): push returns success only if the manifest was uploaded
\* for the given reference.
C8_PushedOnlyIfManifestUploaded ==
  \A p \in Procs :
    Pushed(p) =>
      \E i \in 1..Len(uploads) :
        /\ uploads[i].kind = "manifest"
        /\ uploads[i].ref = ref[p]

\* C9 (as stated): a pull of a reference that returns Pulled after a push to
\* that reference returned success caches a manifest with the layers of the
\* pushed application, in their order.
C9_LayerOrderRoundTrip ==
  \A p \in Procs :
    (Pulled(p) /\ lastPush.ref = ref[p]) =>
      /\ manifestJson[ref[p]].exists
      /\ Len(manifestJson[ref[p]].bytes) = 3
      /\ manifestJson[ref[p]].bytes[3] = lastPush.app.layers

\* C10: once a pull has written manifest.json, the file lists the layer
\* entries the registry returned, each at its index, none dropped or added,
\* through the layer loop and after the pull returned Pulled.
C10_PullKeepsLayerOrder ==
  \A p \in Procs :
    (\/ pc[p] \in {"config", "config_open", "config_write"}
     \/ InLayers(p)
     \/ Pulled(p)) =>
      /\ manifestJson[ref[p]].exists
      /\ Len(manifestJson[ref[p]].bytes) = 3
      /\ Len(manifestJson[ref[p]].bytes[3]) = NumLayers(p)
      /\ \A j \in 1..NumLayers(p) :
           manifestJson[ref[p]].bytes[3][j] = manifest[p].layers[j]

\* A pull returned Pulled for a manifest of several layers, one of them
\* skipped as cached and one fetched.
C10_Witness ==
  /\ Pulled(1)
  /\ NumLayers(1) >= 2
  /\ Skipped(1) # {}
  /\ fetchedIdx[1] # {}

\* The reference strings that are no reference: no repository, an invalid
\* character, an empty tag, no separator.
Malformed ==
  {<<"reg", "/">>, <<"reg", "/", "app!">>, <<"reg", "/", "app", ":">>,
   <<"reg", "app", "v1">>}
\* The registry requests among the steps of the running operation.
Requests(p) ==
  SelectSeq(trace[p], LAMBDA e : e.op \in {"manifest", "config", "blob"})

DigestOf(b) == b[2]
WriteFns == {"write_wasm", "write_data"}

\* C12: when write_wasm or write_data has returned Ok for bytes b and the
\* digest of b, the existence check of old_pull finds that digest, and the
\* file named by the digest in the directory of the category written reads
\* back as b.
C12_ContentAddressing ==
  (/\ call.fn \in WriteFns
   /\ call.stage = "done"
   /\ call.digest = DigestOf(call.bytes)) =>
    /\ HasBlob(call.digest)
    /\ ReadFile(files, <<IF call.fn = "write_wasm" THEN "wasm" ELSE "data", call.digest>>)
         = call.bytes

\* write_wasm has returned Ok for a blob and its digest, over a file that
\* was there before, with the digest present in data/ as well.
C12_Witness ==
  /\ call.fn = "write_wasm"
  /\ call.stage = "done"
  /\ call.digest = DigestOf(call.bytes)
  /\ files[<<"data", call.digest>>].exists

\* C13: the second of two identical calls of write_wasm or write_data does
\* not fail for the file being there (only an I/O error makes a write fail),
\* and when it has returned Ok every file of the cache is as it was when the
\* first call had returned.
C13_WriteBlobIdempotent ==
  (call.fn \in WriteFns /\ prevFiles # NoSnapshot) =>
    /\ call.stage = "failed" => call.ret = <<"io error">>
    /\ call.stage = "done" => files = prevFiles

\* The second of two identical calls has returned Ok.
C13_Witness ==
  /\ call.fn \in WriteFns
  /\ call.stage = "done"
  /\ prevFiles # NoSnapshot

\* The layers whose blob this pull has fetched and opened the file of.
WrittenLayers(p) ==
  {j \in fetchedIdx[p] : j < idx[p] \/ (j = idx[p] /\ pc[p] = "layer_write")}

C15_CredentialResolution ==
  call.fn = "auth" =>
    /\ call.cred.kind = "UsernamePassword" =>
         /\ call.stage = "done"
         /\ call.auth = [kind |-> "Basic", username |-> call.cred.username,
                         password |-> call.cred.password]
    /\ call.cred.kind = "IdentityToken" =>
         (call.stage = "done" /\ call.auth.kind = "Anonymous")
    /\ call.cred.kind \in {"ConfigNotFound", "ConfigReadError", "NoCredentialConfigured"} =>
         (call.stage = "done" /\ call.auth.kind = "Anonymous")
    /\ call.cred.kind \notin {"UsernamePassword", "IdentityToken", "ConfigNotFound",
                               "ConfigReadError", "NoCredentialConfigured"} =>
         call.stage = "failed"

\* Client::auth has answered basic auth for a username/password credential.
C15_Witness ==
  /\ call.fn = "auth"
  /\ call.cred.kind = "UsernamePassword"
  /\ call.cred.username = "bob"
  /\ call.auth.kind = "Basic"

\* The steps of the running operation that ended with an error.
AuthFailed(tr) == Len(tr) > 0 /\ tr[Len(tr)] = [op |-> "auth", item |-> 0, ok |-> FALSE]

\* C16: every registry request of a pull or a push comes after its
\* credential resolution has returned Ok, a request is only under way with
\* credentials resolved, and an operation whose credential resolution
\* failed has ended in Failed right there, with no registry request; up to
\* the end of the credential resolution no step changes a file or a
\* directory of the cache or uploads anything.
C16_CredentialsFirst ==
  /\ [](\A p \in Procs :
          /\ \A i \in 1..Len(trace[p]) :
               trace[p][i].op \in {"manifest", "config", "blob"} =>
                 /\ i > 2
                 /\ trace[p][2] = [op |-> "auth", item |-> 0, ok |-> TRUE]
          /\ pc[p] \in {"manifest", "config", "layer_fetch"} =>
               auth[p].kind \in {"Anonymous", "Basic"}
          /\ AuthFailed(trace[p]) =>
               /\ pc[p] = "idle"
               /\ result[p] = "Failed"
               /\ Len(trace[p]) = 2
               /\ Requests(p) = <<>>)
  /\ [][(\E p \in Procs :
            (pc[p] \in {"idle", "auth", "push_auth"})
              /\ (pc'[p] # pc[p] \/ trace'[p] # trace[p]))
          => (files' = files /\ dirs' = dirs /\ uploads' = uploads)]_vars

\* The credential resolution of a pull has failed on a cache that holds a
\* pulled reference, and the one of a push has failed.
C16_Witness ==
  /\ AuthFailed(trace[1])
  /\ result[1] = "Failed"
  /\ \E f \in FilePaths : files[f].exists

\* The positions of the failed steps among the steps of an operation.
Failing(tr) == {i \in 1..Len(tr) : ~tr[i].ok}

\* C17: in one pull the manifest, the config and each layer are requested
\* at most once; a pull has ended in Failed exactly when its last step is
\* a failed one, that step is then the only failed one, and no step of the
\* pull comes after it.
C17_NoInternalRetry ==
  \A p \in Procs :
    /\ \A i, j \in 1..Len(trace[p]) :
         (/\ i < j
          /\ trace[p][i].op \in {"manifest", "config", "blob"}
          /\ trace[p][i].op = trace[p][j].op)
           => trace[p][i].item # trace[p][j].item
    /\ Failing(trace[p]) \subseteq {Len(trace[p])}
    /\ Failing(trace[p]) # {} => (pc[p] = "idle" /\ result[p] = "Failed")
    /\ (pc[p] = "idle" /\ result[p] = "Failed") => Failing(trace[p]) # {}

\* A pull has fetched and written its first layer and has failed at the
\* request for its second one.
C17_Witness ==
  /\ pc[1] = "idle"
  /\ result[1] = "Failed"
  /\ trace[1][Len(trace[1])] = [op |-> "blob", item |-> 2, ok |-> FALSE]
  /\ \E i \in 1..Len(trace[1]) : trace[1][i] = [op |-> "blob", item |-> 1, ok |-> TRUE]

\* Layer j of the manifest being pulled has no blob file when the loop
\* reaches it: its digest had none when the pull started and no layer
\* before it names the same digest.
NotYetCached(p, j) ==
  /\ manifest[p].layers[j].digest \notin startCache[p]
  /\ \A i \in 1..(j - 1) :
       manifest[p].layers[i].digest # manifest[p].layers[j].digest

\* C18: the registry requests of one pull are the manifest, then the
\* config, then one request for each layer that has no blob file when the
\* loop reaches it and for no other layer, in increasing layer index; a
\* request is only under way when every request before it has been
\* answered.
C18_SequentialTransferOrder ==
  \A p \in Procs :
    LET R == Requests(p) IN
      /\ \A k \in 1..Len(R) :
           /\ (k = 1) <=> (R[k].op = "manifest")
           /\ (k = 2) <=> (R[k].op = "config")
           /\ (k > 2) <=> (R[k].op = "blob")
           /\ R[k].op = "blob" =>
                /\ R[k].item \in 1..NumLayers(p)
                /\ NotYetCached(p, R[k].item)
                /\ k < Len(R) => R[k].item < R[k + 1].item
      /\ \A j \in 1..(idx[p] - 1) :
           NotYetCached(p, j) =>
             \E k \in 1..Len(R) : R[k] = [op |-> "blob", item |-> j, ok |-> TRUE]
      /\ pc[p] \in {"manifest", "config", "layer_fetch"} =>
           /\ \A k \in 1..Len(R) : R[k].ok
           /\ Len(R) = CASE pc[p] = "manifest" -> 0
                          [] pc[p] = "config" -> 1
                          [] OTHER -> 2 + Cardinality({j \in 1..(idx[p] - 1) : NotYetCached(p, j)})

\* A pull has returned Pulled after four requests: manifest, config, the
\* first layer and the second layer.
C18_Witness ==
  /\ Pulled(1)
  /\ Requests(1) = <<[op |-> "manifest", item |-> 0, ok |-> TRUE],
                     [op |-> "config", item |-> 0, ok |-> TRUE],
                     [op |-> "blob", item |-> 1, ok |-> TRUE],
                     [op |-> "blob", item |-> 2, ok |-> TRUE]>>

\* A path keyed by a digest, wasm/<digest> or data/<digest>, or by a
\* reference, manifests/<registry>/<repository>/<tag>/ with manifest.json
\* or config.json in it.
KeyedByDigest(f) ==
  /\ Len(f) = 2
  /\ f[1] \in {"wasm", "data"}
  /\ f[2] \in Digests
KeyedByReference(f) ==
  /\ Len(f) = 5
  /\ f[1] = "manifests"
  /\ \E r \in AllRefs :
       /\ f[2] = r.registry
       /\ f[3] = r.repository
       /\ f[4] = (IF r.tag = NoTag THEN "latest" ELSE r.tag)
  /\ f[5] \in {"manifest.json", "config.json"}

ReferenceDir(r) ==
  <<"manifests", r.registry, r.repository, IF r.tag = NoTag THEN "latest" ELSE r.tag>>
PathFns == {"manifest_for_reference", "config_for_reference"}

Valid == {s \in RefStrings : Parse(s) # ParseError}
\* A descriptor call is in its call of old_pull, or past it and about to
\* read the two files.
DescriptorDidPull ==
  /\ call.fn = "descriptor"
  /\ call.pulled
  /\ call.stage \in {"pull", "read"}

C22_EnsureLayoutIdempotent ==
  /\ []((call.fn = "new" /\ call.stage = "done") =>
          {<<"manifests">>, <<"wasm">>, <<"data">>} \subseteq dirs)
  /\ [](RootIsFile =>
          /\ dirs = {}
          /\ call.fn = "new" => (call.stage = "failed" /\ call.ret = <<"io error">>))
  /\ [][(/\ Quiet
          /\ {<<"manifests">>, <<"wasm">>, <<"data">>} \subseteq dirs
          /\ call'.fn = "new"
          /\ pc' = pc)
          => (call'.stage = "done" /\ files' = files /\ dirs' = dirs)]_vars

\* Cache::new has returned Ok on a root that holds a blob and the two
\* files of a pulled reference.
C22_Witness ==
  /\ call.fn = "new"
  /\ call.stage = "done"
  /\ \E d \in Digests : Complete(d)
  /\ \E r \in AllRefs : manifestJson[r].exists /\ configJson[r].exists

\* The title annotation of a layer: Client::wasm_layer gives a module layer
\* its component's id as title, Client::data_layer gives a data layer no
\* annotations.
NoTitle == "None"
Title(l) == IF l.media_type = WASM_LAYER_MEDIA_TYPE THEN "component" ELSE NoTitle

\* C23: a component is handed out for a pulled manifest only when the
\* manifest has a first layer, that layer has the module media type and it
\* has a title annotation.
C23_ReassemblyValidation ==
  (call.fn = "descriptor" /\ call.stage = "done") =>
    /\ Len(call.ret.manifest.layers) >= 1
    /\ call.ret.manifest.layers[1].media_type = WASM_LAYER_MEDIA_TYPE
    /\ Title(call.ret.manifest.layers[1]) # NoTitle

\* Where a pull is when the fs::write under way is the one inside
\* Cache::write_wasm / Cache::write_data; the fs::write calls for
\* manifest.json and config.json are statements of Client::old_pull.
CacheWritePositions == {"layer_open", "layer_write"}

\* C24: every step of a pull or a push that changes a file under the cache
\* root is a step of one of Cache's functions.
C24_OnlyCacheWrites ==
  [][files' # files =>
       \/ \E p \in Procs : pc[p] \in CacheWritePositions /\ pc'[p] # pc[p]
       \/ call'.fn \in {"write_wasm", "write_data"} /\ call' # call]_vars

\* A registry request of client p is under way.
Requesting(p) == pc[p] \in {"manifest", "config", "layer_fetch"}

C26_ManifestConfigConsistent ==
  (\A p \in Procs : pc[p] = "idle") =>
    \A r \in AllRefs :
      (manifestJson[r].exists /\ configJson[r].exists) =>
        /\ manifestJson[r].bytes # <<>>
        /\ configJson[r].bytes = ConfigBytes(ManifestFromJson(manifestJson[r].bytes).config)

\* C27: when a descriptor call has returned Ok, every layer of the manifest
\* it returned has a blob file in wasm/ or data/.
C27_DescriptorComplete ==
  (call.fn = "descriptor" /\ call.stage = "done") =>
    \A j \in 1..Len(call.ret.manifest.layers) :
      \/ wasm[call.ret.manifest.layers[j].digest].exists
      \/ data[call.ret.manifest.layers[j].digest].exists

\* C28: when a pull has returned Pulled, every layer of its manifest with
\* the module media type has a blob file in wasm/ and every other layer
\* has one in data/.
C28_CategoryPostcondition ==
  \A p \in Procs :
    Pulled(p) =>
      \A j \in 1..NumLayers(p) :
        IF manifest[p].layers[j].media_type = WASM_LAYER_MEDIA_TYPE
        THEN wasm[manifest[p].layers[j].digest].exists
        ELSE data[manifest[p].layers[j].digest].exists

\* manifest.json and config.json both exist for the reference of the
\* descriptor call.
BothCached ==
  /\ files[<<"manifests", call.ref.registry, call.ref.repository,
             TagOrLatest(call.ref), "manifest.json">>].exists
  /\ files[<<"manifests", call.ref.registry, call.ref.repository,
             TagOrLatest(call.ref), "config.json">>].exists
\* A descriptor call is under way and has not called old_pull.
DescriptorNoPull ==
  /\ call.fn = "descriptor"
  /\ call.stage \in {"paths", "check", "read"}
  /\ ~call.pulled

\* C29: a descriptor call goes on to a pull exactly when manifest.json or
\* config.json of its reference does not exist; a call that finds both
\* makes no registry request and changes no file and no directory, and
\* what it returns with Ok is what the two files hold.
C29_DescriptorPullsIffMissing ==
  /\ [][(call.fn = "descriptor" /\ call.stage = "check" /\ call'.stage # "check") =>
          /\ (call'.stage = "pull" /\ call'.pulled /\ pc'[1] = "auth") <=> ~BothCached
          /\ (call'.stage = "read" /\ ~call'.pulled /\ pc'[1] = "idle") <=> BothCached]_vars
  /\ [][(DescriptorNoPull /\ BothCached) =>
          /\ files' = files
          /\ dirs' = dirs
          /\ pc' = pc
          /\ trace' = trace
          /\ uploads' = uploads
          /\ call'.stage \in {"check", "read", "done", "failed"}
          /\ call'.stage = "done" =>
               /\ ManifestJson(call'.ret.manifest) = files[ManifestForReference(call.ref)].bytes
               /\ call'.ret.config = files[ConfigForReference(call.ref)].bytes]_vars

\* A descriptor call has returned Ok without a pull.
C29_Witness ==
  /\ call.fn = "descriptor"
  /\ call.stage = "done"
  /\ ~call.pulled
  /\ Len(call.ret.manifest.layers) >= 1

\* C30: create_or_update_app(name, version) takes the update path (the
\* revision is registered, then the app's channel is patched to it) exactly
\* when an app with that name exists on the platform, and the create path
\* (the app is created, then a channel with the version as range rule) only
\* when the app list was retrieved and holds no app with that name.
OnUpdatePath(c) == c.stage \in {"add_revision", "update_app"}
OnCreatePath(c) == c.stage \in {"add_app", "add_channel"}
C30_CreateOrUpdatePath ==
  /\ [][(CloudAt("get_app") /\ call'.stage # "get_app") =>
          /\ OnUpdatePath(call') <=> (call'.listed /\ AppsNamed(call.name) # {})
          /\ OnCreatePath(call') => (call'.listed /\ AppsNamed(call.name) = {})]_vars
  /\ []((call.fn = "create_or_update_app" /\ call.stage = "done") =>
          \/ /\ call.requests = <<"apps_get", "revisions_post",
                                  "channels_get", "revisions_get", "channels_patch">>
             /\ \E c \in platform.channels :
                  /\ c.id = call.ret.id
                  /\ c.revision_selection_strategy = "UseSpecifiedRevision"
                  /\ c.active_revision = call.version
          \/ /\ call.requests = <<"apps_get", "apps_post", "channels_post", "channels_id_get">>
             /\ call.ret \in platform.channels
             /\ call.ret.revision_selection_strategy = "UseRangeRule"
             /\ call.ret.range_rule = call.version)

\* C31: whenever create_or_update_app(name, version) returns Ok, on the
\* update path as on the create path, a revision numbered version is
\* registered on the platform for the storage id name.
Registered(n, v) ==
  \E a \in platform.apps :
    /\ a.storage_id = n
    /\ [app_id |-> a.id, revision_number |-> v] \in platform.revisions
ReturnedOk == call.fn = "create_or_update_app" /\ call.stage = "done"
C31_RevisionRegisteredOnOk == ReturnedOk => Registered(call.name, call.version)

\* C32: over a proxied registry, deploy pushes the bindle first and calls
\* the platform to create or update the application only after the push
\* returned an id; when the push fails, deploy returns that error and makes
\* no create or update call to the platform.
PlatformApps(pl) == <<pl.apps, pl.channels, pl.revisions>>
PushFailed == call.fn = "deploy" /\ call.stage = "failed" /\ ~call.pushed.ok
C32_DeployOrdering ==
  /\ [](InDeploy =>
          /\ call.deploy.pushed.ok
          /\ call.deploy.pushed.id = call.deploy.id
          /\ call.deploy.events = <<"push_to_registry", "create_or_update_app">>
          /\ call.name = call.deploy.id.name
          /\ call.version = call.deploy.id.version)
  /\ [](PushFailed =>
          /\ call.events = <<"push_to_registry">>
          /\ call.ret = call.pushed.err)
  /\ [][(call.fn = "deploy" /\ call'.fn = "deploy") =>
          PlatformApps(platform') = PlatformApps(platform)]_vars
C32_Witness ==
  /\ call.fn = "deploy"
  /\ call.stage = "done"
  /\ call.events = <<"push_to_registry", "create_or_update_app">>
  /\ call.id \in platform.bindles

\* C33: when push_all fails with an error saying the bindle already exists
\* on the server, create_and_push_bindle returns the id if redeploy is set
\* and a registry error if it is not; every other failure of the push is a
\* registry error whatever the flag; a push that went through returns the id.
PushAnswered ==
  /\ call.fn = "deploy"
  /\ call.publish_result # <<>>
C33_AlreadyExistingBindle ==
  PushAnswered =>
    LET says == Contains(call.publish_result, ALREADY_EXISTS)
    IN /\ (call.publish_result = PushedOk) => call.pushed = [ok |-> TRUE, id |-> call.id]
       /\ (says /\ call.redeploy) => call.pushed = [ok |-> TRUE, id |-> call.id]
       /\ (says /\ ~call.redeploy) => call.pushed = [ok |-> FALSE, err |-> "RegistryError"]
       /\ (call.publish_result # PushedOk /\ ~says) =>
            call.pushed = [ok |-> FALSE, err |-> "RegistryError"]
C33_Witness ==
  /\ PushAnswered
  /\ Contains(call.publish_result, ALREADY_EXISTS)
  /\ call.redeploy
  /\ call.stage = "pushed"

\* C34: with timeout T > 0 and sleep S > 0 the polling ends: it returns the
\* token at the first check that succeeds, and otherwise Timeout after
\* exactly T \div S + 1 failed checks; no check is made once elapsed is
\* over T, and every failed check is followed by a sleep of S and another
\* round.
Polling == call.fn = "check_device_code_with_timeout" /\ call.timeout > 0 /\ call.sleep > 0
Returned == call.stage \in {"done", "failed"}
\* n failed checks, each with its sleep.
FailedRounds(n) == [i \in 1..(2 * n) |-> IF i % 2 = 1 THEN "check" ELSE "sleep"]
Rounds == call.timeout \div call.sleep + 1
C34_PollingTerminates ==
  /\ [](Polling =>
          /\ call.elapsed = call.sleep * (Len(call.events) \div 2)
          /\ Len(call.events) <= 2 * Rounds
          /\ (Returned /\ call.polled.ok) =>
               \E n \in 0..(Rounds - 1) : call.events = FailedRounds(n) \o <<"check">>
          /\ (Returned /\ ~call.polled.ok) =>
               /\ call.polled.err = "Timeout"
               /\ call.events = FailedRounds(Rounds))
  /\ [][(Polling /\ call'.fn = call.fn /\ Len(call'.events) > Len(call.events)) =>
          /\ call'.events[Len(call'.events)] = "check" => call.elapsed <= call.timeout
          /\ call.stage = "poll_check" =>
               /\ call'.events = call.events \o <<"sleep">>
               /\ call'.elapsed = call.elapsed + call.sleep
               /\ call'.stage = "poll_top"]_vars
  /\ (Polling /\ ~Returned) ~> Returned
C34_Witness ==
  /\ Polling
  /\ call.timeout = LOGIN_TIMEOUT
  /\ call.stage = "failed"
  /\ call.polled.err = "Timeout"
  /\ Len(call.events) = 362

\* C35: login run with a device code to check returns at once: exactly one
\* check request is made, there is no sleep, the outcome (the token or a
\* status) is printed, no device code is requested from the platform, and
\* the configuration file is not written.
CheckMode == call.fn = "login" /\ call.check_device_code # NoCode
Ended == call.stage \in {"done", "failed"}
Outcomes ==
  {<<"token", tk>> : tk \in Tokens}
    \cup {<<"status", s>> : s \in {"waiting", "timeout", "unauthorized"}}
C35_NonInteractiveCheck ==
  /\ [](CheckMode =>
          /\ call.events \in {<<>>, <<"check">>}
          /\ Ended =>
               /\ call.stage = "done"
               /\ call.events = <<"check">>
               /\ Len(call.out) = 1
               /\ call.out[1] \in Outcomes
               /\ (call.out[1][1] = "token") <=> call.polled.ok)
  /\ [][(CheckMode /\ ~Ended) => (files' = files /\ dirs' = dirs)]_vars
C35_Witness ==
  /\ CheckMode
  /\ Ended
  /\ call.out = << <<"status", "unauthorized">> >>
  /\ files[AUTH_PATH].exists

\* C36: the interactive login writes the configuration file if and only if
\* the polling returned a token, and the connection written holds that
\* token with the URL and the insecure flag given; when the polling ends in
\* Timeout or no device code can be had, the file is left as it was.
Interactive ==
  /\ call.fn = "login"
  /\ ~call.status
  /\ call.check_device_code = NoCode
  /\ ~call.get_device_code
GotToken == call.phase = "flow" /\ call.polled.ok
NewConn(c) ==
  [url |-> c.url, token |-> c.polled.token,
   expiration |-> c.polled.expiration, insecure |-> c.insecure]
C36_CommitOnlyOnSuccess ==
  /\ [][(Interactive /\ files'[AUTH_PATH] # files[AUTH_PATH]) =>
          /\ call.stage = "polled"
          /\ GotToken
          /\ call'.stage = "done" => files'[AUTH_PATH] = FileOf(ConnJson(NewConn(call)))]_vars
  /\ []((Interactive /\ Ended /\ GotToken) =>
          /\ call.events[Len(call.events)] = "commit"
          /\ call.stage = "done" => files[AUTH_PATH] = FileOf(ConnJson(NewConn(call))))

\* C37: login with the status flag reads only: it makes no network request
\* and writes no configuration, and it reports the token either as no
\* longer valid (the time is past its expiration) or as valid until its
\* expiration, never both for one token.
StatusMode == call.fn = "login" /\ call.status
Said(line) == \E i \in 1..Len(call.out) : call.out[i] = line
C37_StatusReadOnly ==
  /\ [](StatusMode =>
          /\ call.events = <<>>
          /\ ~(Said("is no longer valid") /\ Said("is valid until"))
          /\ call.stage = "done" => (Said("is no longer valid") \/ Said("is valid until")))
  /\ [][(StatusMode /\ ~Ended) => files' = files]_vars

====
